---------------------------- MODULE Spec2Model ----------------------------
(***************************************************************************)
(* A model of slack-tui: the MessageHandler (directory cache and message   *)
(* store adapter, src/messages/message_handler.py) and the RecapManager    *)
(* (src/processors/recap.py).                                              *)
(*                                                                         *)
(* The Slack Web API client is the environment: every provider call of a   *)
(* handler receives a response drawn from a bounded set.  Identifiers      *)
(* (channel ids, channel names, user ids, user names) are sequences of     *)
(* one-character strings, so that lstrip and startswith are computed.      *)
(***************************************************************************)
EXTENDS Integers, Sequences, FiniteSets, TLC

VARIABLES
    channel_cache,   \* MessageHandler.channel_cache : id/name -> channel
    user_cache,      \* MessageHandler.user_cache    : id/name -> user
    message_cache,   \* MessageHandler.message_cache : msg_id -> {channel, ts}
    recaps,          \* RecapManager.recaps
    current_index,   \* RecapManager.current_index
    vip_users,       \* Settings.vip_users : list of {id, username}
    tokens,          \* Settings.tokens : the content of tokens.json
    default_types,   \* Settings.settings["default_types"], as pieces (see normalize_types)
    allowed_types,   \* SlackTUI.allowed_types : the conversation types of the session
    nav,             \* where _interactive_recap stands: not entered, in its loop, left
    last             \* the last call: operation, arguments, outcome, provider calls

handlerVars == <<channel_cache, user_cache, message_cache>>
recapVars == <<recaps, current_index>>
tuiVars == <<default_types, allowed_types, nav>>
vars == <<channel_cache, user_cache, message_cache, recaps, current_index, vip_users,
          tokens, default_types, allowed_types, nav, last>>

-----------------------------------------------------------------------------
(* Bounds of the model *)

\* longest channel listing the provider returns
MaxListing == 2

\* latest message timestamp
MaxTs == 2

\* channels of the workspace in an interactive recap session
NumChannels == 3

-----------------------------------------------------------------------------
(* Values *)

\* Python's None where an identifier is expected (an absent id, name or user)
None == <<"<None>">>

\* a key that the provider's error data lacks (data.get(key) is None)
Missing == "<missing>"

\* outcomes of a call
Return(v) == [kind |-> "return", value |-> v]
ReturnNone == [kind |-> "return_none"]
Raise(e) == [kind |-> "raise", exc |-> e]

Returned(out) == out.kind = "return"
ReturnedNone(out) == out.kind = "return_none"
Raised(out) == out.kind = "raise"

\* an empty dict
EmptyDict == <<>>

DictPut(d, k, v) == [x \in (DOMAIN d) \cup {k} |-> IF x = k THEN v ELSE d[x]]

SeqsUpTo(S, n) == UNION {[1..k -> S] : k \in 0..n}

RECURSIVE SelectMembers(_)
\* [c for c in channels if c.get('is_member')]
SelectMembers(channels) ==
    IF channels = <<>> THEN <<>>
    ELSE IF Head(channels).is_member
         THEN <<Head(channels)>> \o SelectMembers(Tail(channels))
         ELSE SelectMembers(Tail(channels))

-----------------------------------------------------------------------------
(* SlackPermissionError and the provider's failure responses *)

SlackPermissionError(method, error, needed, provided) ==
    [type |-> "SlackPermissionError", method |-> method, error |-> error,
     needed |-> needed, provided |-> provided]

\* a key that _create_recap reads and the dict lacks
KeyError(key) == [type |-> "KeyError", key |-> key]

\* the provider rejects a call: SlackApiError with e.response.data
ApiError(error, needed, provided) ==
    [ok |-> FALSE, error |-> error, needed |-> needed, provided |-> provided]

\* data.get("error", "unknown_error")
ErrorCode(resp) == IF resp.error = Missing THEN "unknown_error" ELSE resp.error

\* the except SlackApiError clauses of the handler
PermissionErrorOf(method, resp) ==
    SlackPermissionError(method, ErrorCode(resp), resp.needed, resp.provided)

-----------------------------------------------------------------------------
(* MessageHandler: message ids *)

\* the number of characters of the digest that make the id: hexdigest()[:8]
DigestChars == 8

\* hashlib.md5(f"{channel}:{ts}").hexdigest()[:8]: the first characters of the
\* digest of the string "channel:ts", kept symbolic as the string it is computed from
md5_prefix(channel, ts) == [md5 |-> <<channel, ":", ts>>, chars |-> DigestChars]

\* generate_message_id: the id, and message_cache after the call
generate_message_id(mcache, channel, ts) ==
    LET msg_hash == md5_prefix(channel, ts)
    IN  [msg_id |-> msg_hash,
         message_cache |-> DictPut(mcache, msg_hash, [channel |-> channel, ts |-> ts])]

RECURSIVE AddMessageIds(_, _, _)
\* for msg in messages: msg["msg_id"] = self.generate_message_id(channel_id, msg["ts"])
AddMessageIds(mcache, channel_id, messages) ==
    IF messages = <<>> THEN [messages |-> <<>>, message_cache |-> mcache]
    ELSE LET g == generate_message_id(mcache, channel_id, Head(messages).ts)
             m == [ts |-> Head(messages).ts, user |-> Head(messages).user,
                   reply_count |-> Head(messages).reply_count, msg_id |-> g.msg_id]
             rest == AddMessageIds(g.message_cache, channel_id, Tail(messages))
         IN  [messages |-> <<m>> \o rest.messages, message_cache |-> rest.message_cache]

-----------------------------------------------------------------------------
(* MessageHandler: channel operations.  Each operator gives the handler's   *)
(* state after the call, its outcome and the provider calls it issued.      *)

\* one call of the Slack client: the API method, its argument, the response
ProviderCall(method, arg, resp) == [method |-> method, arg |-> arg, resp |-> resp]

RECURSIVE CacheChannelsByIdOnly(_, _)
\* the cache loop without the entry under the name
CacheChannelsByIdOnly(cache, channels) ==
    IF channels = <<>> THEN cache
    ELSE CacheChannelsByIdOnly(DictPut(cache, Head(channels).id, Head(channels)),
                               Tail(channels))

RECURSIVE CacheChannels(_, _)
\* for channel in channels: cache by id, and by name when it has one
CacheChannels(cache, channels) ==
    IF channels = <<>> THEN cache
    ELSE LET channel == Head(channels)
             byId == DictPut(cache, channel.id, channel)
             byName == IF channel.name # None
                       THEN DictPut(byId, channel.name, channel)
                       ELSE byId
         IN  CacheChannels(byName, Tail(channels))

\* get_channels that answers a rejected listing with the empty list
get_channels_swallow(cache, types, resp) ==
    LET call == ProviderCall("conversations.list", types, resp)
    IN  IF resp.ok
        THEN [channel_cache |-> CacheChannels(cache, resp.channels),
              out |-> Return(resp.channels),
              calls |-> <<call>>]
        ELSE [channel_cache |-> cache, out |-> Return(<<>>), calls |-> <<call>>]

get_channels(cache, types, resp) ==
    LET call == ProviderCall("conversations.list", types, resp)
    IN  IF resp.ok
        THEN [channel_cache |-> CacheChannels(cache, resp.channels),
              out |-> Return(resp.channels),
              calls |-> <<call>>]
        ELSE [channel_cache |-> cache,
              out |-> Raise(PermissionErrorOf("conversations.list", resp)),
              calls |-> <<call>>]

\* get_channel that asks the provider whether or not the id is cached
get_channel_refetch(cache, channel_id, resp) ==
    LET call == ProviderCall("conversations.info", channel_id, resp)
    IN  IF resp.ok
        THEN [channel_cache |-> DictPut(cache, channel_id, resp.channel),
              out |-> Return(resp.channel),
              calls |-> <<call>>]
        ELSE [channel_cache |-> cache,
              out |-> Raise(PermissionErrorOf("conversations.info", resp)),
              calls |-> <<call>>]

get_channel(cache, channel_id, resp) ==
    IF channel_id \in DOMAIN cache
    THEN [channel_cache |-> cache, out |-> Return(cache[channel_id]), calls |-> <<>>]
    ELSE LET call == ProviderCall("conversations.info", channel_id, resp)
         IN  IF resp.ok
             THEN [channel_cache |-> DictPut(cache, channel_id, resp.channel),
                   out |-> Return(resp.channel),
                   calls |-> <<call>>]
             ELSE [channel_cache |-> cache,
                   out |-> Raise(PermissionErrorOf("conversations.info", resp)),
                   calls |-> <<call>>]

RECURSIVE lstrip(_, _)
\* str.lstrip(ch): every leading ch is removed
lstrip(s, ch) ==
    IF s # <<>> /\ Head(s) = ch THEN lstrip(Tail(s), ch) ELSE s

\* str.startswith(prefixes), each prefix one character
startswith(s, prefixes) == s # <<>> /\ Head(s) \in prefixes

ChannelIdPrefixes == {"C", "D", "G"}

resolve_channel(cache, identifier, types, resp) ==
    LET ident == lstrip(identifier, "#")
    IN  IF startswith(ident, ChannelIdPrefixes)
        THEN [channel_cache |-> cache, out |-> Return(ident), calls |-> <<>>]
        ELSE IF ident \in DOMAIN cache
        THEN [channel_cache |-> cache, out |-> Return(cache[ident].id), calls |-> <<>>]
        ELSE LET r == get_channels(cache, types, resp)
             IN  IF Raised(r.out) THEN r
                 ELSE IF ident \in DOMAIN r.channel_cache
                 THEN [channel_cache |-> r.channel_cache,
                       out |-> Return(r.channel_cache[ident].id),
                       calls |-> r.calls]
                 ELSE [channel_cache |-> r.channel_cache,
                       out |-> ReturnNone,
                       calls |-> r.calls]

-----------------------------------------------------------------------------
(* MessageHandler: user operations *)

RECURSIVE CacheUsers(_, _)
\* for user in users: cache by id and by name
CacheUsers(cache, users) ==
    IF users = <<>> THEN cache
    ELSE LET user == Head(users)
         IN  CacheUsers(DictPut(DictPut(cache, user.id, user), user.name, user),
                        Tail(users))

get_users(cache, resp) ==
    LET call == ProviderCall("users.list", None, resp)
    IN  IF resp.ok
        THEN [user_cache |-> CacheUsers(cache, resp.members),
              out |-> Return(resp.members),
              calls |-> <<call>>]
        ELSE [user_cache |-> cache,
              out |-> Raise(PermissionErrorOf("users.list", resp)),
              calls |-> <<call>>]

get_user(cache, user_id, resp) ==
    IF user_id \in DOMAIN cache
    THEN [user_cache |-> cache, out |-> Return(cache[user_id]), calls |-> <<>>]
    ELSE LET call == ProviderCall("users.info", user_id, resp)
         IN  IF resp.ok
             THEN [user_cache |-> DictPut(cache, user_id, resp.user),
                   out |-> Return(resp.user),
                   calls |-> <<call>>]
             ELSE [user_cache |-> cache,
                   out |-> Raise(PermissionErrorOf("users.info", resp)),
                   calls |-> <<call>>]

UserIdPrefixes == {"U"}

resolve_user(cache, identifier, resp) ==
    LET ident == lstrip(identifier, "@")
    IN  IF startswith(ident, UserIdPrefixes)
        THEN [user_cache |-> cache, out |-> Return(ident), calls |-> <<>>]
        ELSE IF ident \in DOMAIN cache
        THEN [user_cache |-> cache, out |-> Return(cache[ident].id), calls |-> <<>>]
        ELSE LET r == get_users(cache, resp)
             IN  IF Raised(r.out) THEN r
                 ELSE IF ident \in DOMAIN r.user_cache
                 THEN [user_cache |-> r.user_cache,
                       out |-> Return(r.user_cache[ident].id),
                       calls |-> r.calls]
                 ELSE [user_cache |-> r.user_cache,
                       out |-> ReturnNone,
                       calls |-> r.calls]

-----------------------------------------------------------------------------
(* MessageHandler: message operations *)

get_messages(mcache, channel_id, limit, resp) ==
    LET call == ProviderCall("conversations.history", channel_id, resp)
    IN  IF resp.ok
        THEN LET a == AddMessageIds(mcache, channel_id, resp.messages)
             IN  [message_cache |-> a.message_cache,
                  out |-> Return(a.messages),
                  calls |-> <<call>>]
        ELSE [message_cache |-> mcache,
              out |-> Raise(PermissionErrorOf("conversations.history", resp)),
              calls |-> <<call>>]

RECURSIVE AddMatchIds(_, _)
\* for msg in matches: the id is added when the match names its channel
AddMatchIds(mcache, matches) ==
    IF matches = <<>> THEN [messages |-> <<>>, message_cache |-> mcache]
    ELSE LET msg == Head(matches)
             g == generate_message_id(mcache, msg.channel, msg.ts)
             m == [ts |-> msg.ts, user |-> msg.user, reply_count |-> msg.reply_count,
                   channel |-> msg.channel,
                   msg_id |-> IF msg.channel # None THEN g.msg_id ELSE None]
             rest == AddMatchIds(IF msg.channel # None THEN g.message_cache ELSE mcache,
                                 Tail(matches))
         IN  [messages |-> <<m>> \o rest.messages, message_cache |-> rest.message_cache]

\* search_messages that raises on a rejected search, as get_messages does
search_messages_raising(mcache, query, count, resp) ==
    LET call == ProviderCall("search.messages", query, resp)
    IN  IF resp.ok
        THEN LET a == AddMatchIds(mcache, resp.matches)
             IN  [message_cache |-> a.message_cache,
                  out |-> Return(a.messages),
                  calls |-> <<call>>]
        ELSE [message_cache |-> mcache,
              out |-> Raise(PermissionErrorOf("search.messages", resp)),
              calls |-> <<call>>]

search_messages(mcache, query, count, resp) ==
    LET call == ProviderCall("search.messages", query, resp)
    IN  IF resp.ok
        THEN LET a == AddMatchIds(mcache, resp.matches)
             IN  [message_cache |-> a.message_cache,
                  out |-> Return(a.messages),
                  calls |-> <<call>>]
        ELSE [message_cache |-> mcache,
              out |-> Return(<<>>),
              calls |-> <<call>>]

-----------------------------------------------------------------------------
(* RecapManager *)

\* float(msg['ts']): timestamps are kept as the numbers they denote
float(ts) == ts

Max(S) == CHOOSE x \in S : \A y \in S : y <= x
Min2(a, b) == IF a <= b THEN a ELSE b

\* messages[:5]
PreviewLen == 5

\* _create_recap that counts the messages of the preview only
_create_recap_of_preview(channel, messages) ==
    IF channel.name = None THEN Raise(KeyError("name"))
    ELSE LET preview == SubSeq(messages, 1, Min2(PreviewLen, Len(messages)))
             participants ==
                 {preview[i].user : i \in {j \in DOMAIN preview : preview[j].user # None}}
             latest_ts == Max({float(preview[i].ts) : i \in DOMAIN preview})
             threads == Cardinality({i \in DOMAIN preview : preview[i].reply_count > 0})
         IN  Return([channel_id |-> channel.id,
                     channel_name |-> channel.name,
                     channel_topic |-> channel.topic,
                     total_messages |-> Len(preview),
                     participants |-> Cardinality(participants),
                     threads |-> threads,
                     latest_timestamp |-> latest_ts,
                     preview_messages |-> preview])

_create_recap(channel, messages) ==
    IF channel.name = None THEN Raise(KeyError("name"))
    ELSE LET participants ==
                 {messages[i].user : i \in {j \in DOMAIN messages : messages[j].user # None}}
             latest_ts == Max({float(messages[i].ts) : i \in DOMAIN messages})
             threads == Cardinality({i \in DOMAIN messages : messages[i].reply_count > 0})
         IN  Return([channel_id |-> channel.id,
                     channel_name |-> channel.name,
                     channel_topic |-> channel.topic,
                     total_messages |-> Len(messages),
                     participants |-> Cardinality(participants),
                     threads |-> threads,
                     latest_timestamp |-> latest_ts,
                     preview_messages |-> SubSeq(messages, 1, Min2(PreviewLen, Len(messages)))])

RECURSIVE InsertDesc_ascending(_, _)
\* x placed behind every element whose key is not larger: ascending order
InsertDesc_ascending(sorted, x) ==
    IF sorted = <<>> THEN <<x>>
    ELSE IF Head(sorted).latest_timestamp <= x.latest_timestamp
         THEN <<Head(sorted)>> \o InsertDesc_ascending(Tail(sorted), x)
         ELSE <<x>> \o sorted

RECURSIVE InsertDesc(_, _)
\* x placed behind every element whose key is not smaller: equal keys keep their order
InsertDesc(sorted, x) ==
    IF sorted = <<>> THEN <<x>>
    ELSE IF Head(sorted).latest_timestamp >= x.latest_timestamp
         THEN <<Head(sorted)>> \o InsertDesc(Tail(sorted), x)
         ELSE <<x>> \o sorted

RECURSIVE SortRecaps(_)
\* list.sort(key=latest_timestamp, reverse=True), a stable sort
SortRecaps(rs) ==
    IF rs = <<>> THEN <<>>
    ELSE InsertDesc(SortRecaps(SubSeq(rs, 1, Len(rs) - 1)), rs[Len(rs)])

MessagesPerChannel == 10

RECURSIVE RecapLoop_keep_empty(_, _, _, _)
\* the loop in which a channel without messages gets a recap of zero messages
RecapLoop_keep_empty(mcache, member_channels, hist, i) ==
    IF i > Len(member_channels)
    THEN [message_cache |-> mcache, recaps |-> <<>>, calls |-> <<>>]
    ELSE LET channel == member_channels[i]
             g == get_messages(mcache, channel.id, MessagesPerChannel, hist[i])
             rest == RecapLoop_keep_empty(g.message_cache, member_channels, hist, i + 1)
             recap == _create_recap(channel, g.out.value)
             mine == IF Raised(g.out) THEN <<>>
                     ELSE IF g.out.value = <<>>
                     THEN <<[channel_id |-> channel.id, channel_name |-> channel.name,
                             channel_topic |-> channel.topic, total_messages |-> 0,
                             participants |-> 0, threads |-> 0, latest_timestamp |-> 0,
                             preview_messages |-> <<>>]>>
                     ELSE IF Raised(recap) THEN <<>>
                     ELSE <<recap.value>>
         IN  [message_cache |-> rest.message_cache,
              recaps |-> mine \o rest.recaps,
              calls |-> g.calls \o rest.calls]

RECURSIVE RecapLoop(_, _, _, _)
\* the for loop of generate_recaps over member_channels; hist[i] is the provider's
\* answer to the i-th get_messages call.  Every exception of the body is caught
\* and the channel skipped.
RecapLoop(mcache, member_channels, hist, i) ==
    IF i > Len(member_channels)
    THEN [message_cache |-> mcache, recaps |-> <<>>, calls |-> <<>>]
    ELSE LET channel == member_channels[i]
             g == get_messages(mcache, channel.id, MessagesPerChannel, hist[i])
             rest == RecapLoop(g.message_cache, member_channels, hist, i + 1)
             recap == _create_recap(channel, g.out.value)
             mine == IF Raised(g.out) THEN <<>>
                     ELSE IF g.out.value = <<>> THEN <<>>
                     ELSE IF Raised(recap) THEN <<>>
                     ELSE <<recap.value>>
         IN  [message_cache |-> rest.message_cache,
              recaps |-> mine \o rest.recaps,
              calls |-> g.calls \o rest.calls]

\* generate_recaps without "self.current_index = 0"
generate_recaps_keep_index(ccache, mcache, old_recaps, old_index, types, resp, hist) ==
    LET l == get_channels(ccache, types, resp)
    IN  IF Raised(l.out)
        THEN [channel_cache |-> l.channel_cache, message_cache |-> mcache,
              recaps |-> old_recaps, current_index |-> old_index,
              out |-> l.out, calls |-> l.calls]
        ELSE LET member_channels == SelectMembers(l.out.value)
                 loop == RecapLoop(mcache, member_channels, hist, 1)
                 sorted == SortRecaps(loop.recaps)
             IN  [channel_cache |-> l.channel_cache, message_cache |-> loop.message_cache,
                  recaps |-> sorted, current_index |-> old_index,
                  out |-> Return(sorted), calls |-> l.calls \o loop.calls]

\* generate_recaps without "self.recaps = []": the new recaps join the old ones
generate_recaps_keep_recaps(ccache, mcache, old_recaps, old_index, types, resp, hist) ==
    LET l == get_channels(ccache, types, resp)
    IN  IF Raised(l.out)
        THEN [channel_cache |-> l.channel_cache, message_cache |-> mcache,
              recaps |-> old_recaps, current_index |-> old_index,
              out |-> l.out, calls |-> l.calls]
        ELSE LET member_channels == SelectMembers(l.out.value)
                 loop == RecapLoop(mcache, member_channels, hist, 1)
                 sorted == SortRecaps(old_recaps \o loop.recaps)
             IN  [channel_cache |-> l.channel_cache, message_cache |-> loop.message_cache,
                  recaps |-> sorted, current_index |-> 0,
                  out |-> Return(sorted), calls |-> l.calls \o loop.calls]

\* generate_recaps on the state (channel_cache, message_cache, recaps, current_index)
generate_recaps(ccache, mcache, old_recaps, old_index, types, resp, hist) ==
    LET l == get_channels(ccache, types, resp)
    IN  IF Raised(l.out)
        THEN [channel_cache |-> l.channel_cache, message_cache |-> mcache,
              recaps |-> old_recaps, current_index |-> old_index,
              out |-> l.out, calls |-> l.calls]
        ELSE LET member_channels == SelectMembers(l.out.value)
                 loop == RecapLoop(mcache, member_channels, hist, 1)
                 sorted == SortRecaps(loop.recaps)
             IN  [channel_cache |-> l.channel_cache, message_cache |-> loop.message_cache,
                  recaps |-> sorted, current_index |-> 0,
                  out |-> Return(sorted), calls |-> l.calls \o loop.calls]

get_current_recap(rs, index) ==
    IF rs = <<>> \/ index >= Len(rs) THEN ReturnNone
    ELSE Return(rs[index + 1])

\* next_recap without the wraparound
next_recap_no_wrap(rs, index) ==
    IF rs = <<>> THEN [current_index |-> index, out |-> ReturnNone]
    ELSE [current_index |-> index + 1, out |-> get_current_recap(rs, index + 1)]

next_recap(rs, index) ==
    IF rs = <<>> THEN [current_index |-> index, out |-> ReturnNone]
    ELSE LET new == (index + 1) % Len(rs)
         IN  [current_index |-> new, out |-> get_current_recap(rs, new)]

previous_recap(rs, index) ==
    IF rs = <<>> THEN [current_index |-> index, out |-> ReturnNone]
    ELSE LET new == (index - 1) % Len(rs)
         IN  [current_index |-> new, out |-> get_current_recap(rs, new)]

-----------------------------------------------------------------------------
(* Inputs *)

C1 == <<"C", "1">>
C2 == <<"C", "2">>
U1 == <<"U", "1">>
U2 == <<"U", "2">>
general == <<"g", "e", "n">>
random == <<"r", "n", "d">>

Channel(id, name, is_member) ==
    [id |-> id, name |-> name, is_member |-> is_member, topic |-> ""]

Message(ts, user, reply_count) == [ts |-> ts, user |-> user, reply_count |-> reply_count]

TypesArgs == {"public_channel", "public_channel,private_channel"}

\* the provider's answers
ListOk(channels) == [ok |-> TRUE, channels |-> channels]
HistoryOk(messages) == [ok |-> TRUE, messages |-> messages]

MissingScope == ApiError("missing_scope", "channels:read", "chat:write")

\* timestamps run over 1..MaxTs
Timestamps == 1..MaxTs

NoRepeatedId(l) == \A i, j \in DOMAIN l : l[i].id = l[j].id => i = j

\* recap session: two channels, each listed as joined or not, in any order
RecapChannels == {Channel(C1, general, m) : m \in BOOLEAN} \cup
                 {Channel(C2, random, m) : m \in BOOLEAN}
RecapListResponses ==
    {ListOk(l) : l \in {x \in SeqsUpTo(RecapChannels, MaxListing) : NoRepeatedId(x)}}
        \cup {MissingScope}
RecapHistories ==
    {<<>>} \cup {<<Message(t, U1, 0)>> : t \in Timestamps}
           \cup {<<Message(MaxTs, U2, 1), Message(1, U1, 0)>>}
RecapHistResponses == {HistoryOk(h) : h \in RecapHistories} \cup {MissingScope}

-----------------------------------------------------------------------------
(* Actions *)

Call(op, arg, out, calls) == [op |-> op, arg |-> arg, out |-> out, calls |-> calls]

Init ==
    /\ channel_cache = EmptyDict
    /\ user_cache = EmptyDict
    /\ message_cache = EmptyDict
    /\ recaps = <<>>
    /\ current_index = 0
    /\ vip_users = <<>>
    /\ tokens = EmptyDict
    /\ default_types = <<"public_channel">>
    /\ allowed_types = "public_channel"
    /\ nav = "none"
    /\ last = Call("init", None, ReturnNone, <<>>)

GenerateRecaps(Types, ListResponses, HistResponses) ==
    \E types \in Types, resp \in ListResponses :
        \E hist \in [1..(IF resp.ok THEN Len(SelectMembers(resp.channels)) ELSE 0)
                        -> HistResponses] :
            \E r \in {generate_recaps(channel_cache, message_cache, recaps,
                                     current_index, types, resp, hist)} :
                /\ channel_cache' = r.channel_cache
                /\ message_cache' = r.message_cache
                /\ recaps' = r.recaps
                /\ current_index' = r.current_index
                /\ last' = Call("generate_recaps", types, r.out, r.calls)
                /\ UNCHANGED <<user_cache, vip_users, tokens, tuiVars>>

GetCurrentRecap ==
    /\ last' = Call("get_current_recap", None, get_current_recap(recaps, current_index), <<>>)
    /\ UNCHANGED <<handlerVars, recapVars, vip_users, tokens, tuiVars>>

NextRecap ==
    \E r \in {next_recap(recaps, current_index)} :
        /\ current_index' = r.current_index
        /\ last' = Call("next_recap", None, r.out, <<>>)
        /\ UNCHANGED <<handlerVars, recaps, vip_users, tokens, tuiVars>>

PreviousRecap ==
    \E r \in {previous_recap(recaps, current_index)} :
        /\ current_index' = r.current_index
        /\ last' = Call("previous_recap", None, r.out, <<>>)
        /\ UNCHANGED <<handlerVars, recaps, vip_users, tokens, tuiVars>>

-----------------------------------------------------------------------------
(* The recap session: generate, then navigate *)

NextRecapSession ==
    \/ GenerateRecaps(TypesArgs, RecapListResponses, RecapHistResponses)
    \/ GetCurrentRecap
    \/ NextRecap
    \/ PreviousRecap

SpecRecap == Init /\ [][NextRecapSession]_vars

-----------------------------------------------------------------------------
(* The interactive recap command: show_recap generates once, then Q/E navigate *)

Digits == <<"1", "2", "3", "4", "5", "6", "7", "8", "9">>
LowerCase == <<"a", "b", "c", "d", "e", "f", "g", "h", "i">>

WorkspaceChannels ==
    {Channel(<<"C", Digits[i]>>, <<LowerCase[i]>>, m) : i \in 1..NumChannels, m \in BOOLEAN}
WorkspaceListResponses ==
    {ListOk(l) : l \in {x \in SeqsUpTo(WorkspaceChannels, NumChannels) : NoRepeatedId(x)}}
        \cup {MissingScope}
WorkspaceHistResponses ==
    {HistoryOk(h) : h \in {<<>>} \cup {<<Message(t, U1, 0)>> : t \in Timestamps}}
        \cup {MissingScope}

ShowRecap ==
    /\ last.op = "init"
    /\ GenerateRecaps({"public_channel"}, WorkspaceListResponses, WorkspaceHistResponses)

NextInteractive ==
    \/ ShowRecap
    \/ GetCurrentRecap
    \/ NextRecap
    \/ PreviousRecap

SpecInteractive == Init /\ [][NextInteractive]_vars

-----------------------------------------------------------------------------
(* The directory cache: channel operations *)

D3 == <<"D", "3">>
C9 == <<"C", "9">>
nochan == <<"x">>

\* the provider's failures: a missing scope with the scopes named, a token type
\* that is not allowed, a channel that does not exist, error data without a code
NotAllowedTokenType == ApiError("not_allowed_token_type", Missing, Missing)
ChannelNotFound == ApiError("channel_not_found", Missing, Missing)
UserNotFound == ApiError("user_not_found", Missing, Missing)
NoErrorData == ApiError(Missing, Missing, Missing)
ListFailures == {MissingScope, NotAllowedTokenType, NoErrorData}

\* the workspace's conversations: two channels that may carry either name, and a
\* direct message, which has no name
DirectoryChannels ==
    {Channel(id, name, TRUE) : id \in {C1, C2}, name \in {general, random}}
        \cup {Channel(D3, None, FALSE)}
DirectoryListResponses ==
    {ListOk(l) : l \in {x \in SeqsUpTo(DirectoryChannels, MaxListing) : NoRepeatedId(x)}}
        \cup ListFailures

InfoOk(channel) == [ok |-> TRUE, channel |-> channel]
\* conversations.info answers with the record of the id asked for, or rejects
InfoResponses(channel_id) ==
    {InfoOk(c) : c \in {x \in DirectoryChannels : x.id = channel_id}}
        \cup {ChannelNotFound, MissingScope}

ChannelIdArgs == {C1, C2, C9}
\* what a user types for a channel: a name with or without '#', an id, a name
\* that no channel has
ChannelIdentifiers ==
    {general, <<"#">> \o general, <<"#", "#">> \o random, nochan, C9, <<"#">> \o D3}

\* the provider answers only a handler that calls it: when the handler issues no
\* call, the answer is immaterial and one stands for all
AnswersTo(calls, Responses) == IF calls = <<>> THEN {MissingScope} ELSE Responses

GetChannels(Types, ListResponses) ==
    \E types \in Types, resp \in ListResponses :
        \E r \in {get_channels(channel_cache, types, resp)} :
            /\ channel_cache' = r.channel_cache
            /\ last' = Call("get_channels", types, r.out, r.calls)
            /\ UNCHANGED <<user_cache, message_cache, recapVars, vip_users, tokens, tuiVars>>

GetChannel ==
    \E channel_id \in ChannelIdArgs :
        \E resp \in AnswersTo(get_channel(channel_cache, channel_id, MissingScope).calls,
                               InfoResponses(channel_id)) :
            \E r \in {get_channel(channel_cache, channel_id, resp)} :
                /\ channel_cache' = r.channel_cache
                /\ last' = Call("get_channel", channel_id, r.out, r.calls)
                /\ UNCHANGED <<user_cache, message_cache, recapVars, vip_users, tokens, tuiVars>>

ResolveChannel(Identifiers, Types, ListResponses) ==
    \E identifier \in Identifiers, types \in Types :
        \E resp \in AnswersTo(resolve_channel(channel_cache, identifier, types,
                                               MissingScope).calls, ListResponses) :
            \E r \in {resolve_channel(channel_cache, identifier, types, resp)} :
                /\ channel_cache' = r.channel_cache
                /\ last' = Call("resolve_channel", <<identifier, types>>, r.out, r.calls)
                /\ UNCHANGED <<user_cache, message_cache, recapVars, vip_users, tokens, tuiVars>>

NextChannels ==
    \/ GetChannels({"public_channel"}, DirectoryListResponses)
    \/ GetChannel
    \/ ResolveChannel(ChannelIdentifiers, TypesArgs, DirectoryListResponses)

SpecChannels == Init /\ [][NextChannels]_vars

-----------------------------------------------------------------------------
(* The directory cache: user operations *)

alice == <<"a", "l">>
bob == <<"b", "o">>
nouser == <<"y">>
U9 == <<"U", "9">>

User(id, name) == [id |-> id, name |-> name]

DirectoryUsers == {User(id, name) : id \in {U1, U2}, name \in {alice, bob}}
MembersOk(members) == [ok |-> TRUE, members |-> members]
UserListResponses ==
    {MembersOk(l) : l \in {x \in SeqsUpTo(DirectoryUsers, MaxListing) : NoRepeatedId(x)}}
        \cup ListFailures

UserInfoOk(user) == [ok |-> TRUE, user |-> user]
UserInfoResponses(user_id) ==
    {UserInfoOk(u) : u \in {x \in DirectoryUsers : x.id = user_id}}
        \cup {UserNotFound, MissingScope}

UserIdArgs == {U1, U2, U9}
UserIdentifiers == {alice, <<"@">> \o bob, <<"@", "@">> \o alice, nouser, <<"@">> \o U9}

GetUsers(ListResponses) ==
    \E resp \in ListResponses :
        \E r \in {get_users(user_cache, resp)} :
            /\ user_cache' = r.user_cache
            /\ last' = Call("get_users", None, r.out, r.calls)
            /\ UNCHANGED <<channel_cache, message_cache, recapVars, vip_users, tokens, tuiVars>>

GetUser ==
    \E user_id \in UserIdArgs :
        \E resp \in AnswersTo(get_user(user_cache, user_id, MissingScope).calls,
                               UserInfoResponses(user_id)) :
            \E r \in {get_user(user_cache, user_id, resp)} :
                /\ user_cache' = r.user_cache
                /\ last' = Call("get_user", user_id, r.out, r.calls)
                /\ UNCHANGED <<channel_cache, message_cache, recapVars, vip_users, tokens, tuiVars>>

ResolveUser(Identifiers, ListResponses) ==
    \E identifier \in Identifiers :
        \E resp \in AnswersTo(resolve_user(user_cache, identifier, MissingScope).calls,
                               ListResponses) :
            \E r \in {resolve_user(user_cache, identifier, resp)} :
                /\ user_cache' = r.user_cache
                /\ last' = Call("resolve_user", identifier, r.out, r.calls)
                /\ UNCHANGED <<channel_cache, message_cache, recapVars, vip_users, tokens, tuiVars>>

NextUsers ==
    \/ GetUsers(UserListResponses)
    \/ GetUser
    \/ ResolveUser(UserIdentifiers, UserListResponses)

SpecUsers == Init /\ [][NextUsers]_vars

-----------------------------------------------------------------------------
(* Identifier resolution, of channels and of users, as the commands use it *)

ResolveListResponses ==
    {ListOk(l) : l \in {x \in SeqsUpTo({Channel(C1, general, TRUE),
                                         Channel(C2, random, TRUE),
                                         Channel(D3, None, FALSE)}, MaxListing) :
                            NoRepeatedId(x)}} \cup {MissingScope}
ResolveUserListResponses ==
    {MembersOk(l) : l \in {x \in SeqsUpTo({User(U1, alice), User(U2, bob), User(U9, nouser)},
                                           MaxListing) : NoRepeatedId(x) }}
        \cup {MissingScope}

NextResolve ==
    \/ ResolveChannel(ChannelIdentifiers, TypesArgs, ResolveListResponses)
    \/ ResolveUser(UserIdentifiers, ResolveUserListResponses)

SpecResolve == Init /\ [][NextResolve]_vars

-----------------------------------------------------------------------------
(* The message store adapter *)

Match(ts, user, channel) ==
    [ts |-> ts, user |-> user, reply_count |-> 0, channel |-> channel]
SearchOk(matches) == [ok |-> TRUE, matches |-> matches]

\* the same failures for every message call
MessageFailures == {MissingScope, NotAllowedTokenType, ChannelNotFound}

StoreMessages == {Message(t, u, n) : t \in Timestamps, u \in {U1, None}, n \in {0, 1}}
StoreHistResponses ==
    {HistoryOk(h) : h \in SeqsUpTo(StoreMessages, MaxListing)} \cup MessageFailures
StoreMatches == {Match(t, U1, c) : t \in Timestamps, c \in {C1, C2, None}}
StoreSearchResponses ==
    {SearchOk(m) : m \in SeqsUpTo(StoreMatches, MaxListing)} \cup MessageFailures

Queries == {"deploy"}
Limits == {20}

GetMessages(HistResponses) ==
    \E channel_id \in {C1, C2}, limit \in Limits, resp \in HistResponses :
        \E r \in {get_messages(message_cache, channel_id, limit, resp)} :
            /\ message_cache' = r.message_cache
            /\ last' = Call("get_messages", channel_id, r.out, r.calls)
            /\ UNCHANGED <<channel_cache, user_cache, recapVars, vip_users, tokens, tuiVars>>

SearchMessages(SearchResponses) ==
    \E query \in Queries, count \in Limits, resp \in SearchResponses :
        \E r \in {search_messages(message_cache, query, count, resp)} :
            /\ message_cache' = r.message_cache
            /\ last' = Call("search_messages", query, r.out, r.calls)
            /\ UNCHANGED <<channel_cache, user_cache, recapVars, vip_users, tokens, tuiVars>>

NextMessages ==
    \/ GetMessages(StoreHistResponses)
    \/ SearchMessages(StoreSearchResponses)

SpecMessages == Init /\ [][NextMessages]_vars

-----------------------------------------------------------------------------
(* Claims: the recap cursor *)

RECURSIVE IterateNext(_, _, _)
\* the cursor after k next_recap calls
IterateNext(rs, index, k) ==
    IF k = 0 THEN index ELSE IterateNext(rs, next_recap(rs, index).current_index, k - 1)

\* C1: on a non-empty recap list of length n, next_recap moves the cursor from
\* i to i+1, wrapping from n-1 to 0, and previous_recap from i to i-1, wrapping
\* from 0 to n-1, each returning the record at the new index; n next_recap calls
\* from index 0 end at index 0 and one previous_recap from index 0 ends at n-1.
C1_CursorWraparound ==
    /\ [][recaps # <<>> =>
            /\ last'.op = "next_recap" =>
                  /\ current_index' =
                        (IF current_index = Len(recaps) - 1 THEN 0 ELSE current_index + 1)
                  /\ last'.out = Return(recaps[current_index' + 1])
            /\ last'.op = "previous_recap" =>
                  /\ current_index' =
                        (IF current_index = 0 THEN Len(recaps) - 1 ELSE current_index - 1)
                  /\ last'.out = Return(recaps[current_index' + 1])]_vars
    /\ [](recaps # <<>> =>
            /\ IterateNext(recaps, 0, Len(recaps)) = 0
            /\ previous_recap(recaps, 0).current_index = Len(recaps) - 1)

\* a three-element list on which previous_recap has wrapped from 0 to 2
C1_Witness ==
    /\ Len(recaps) = 3
    /\ last.op = "previous_recap"
    /\ current_index = 2

\* C2: the engine is Empty (no recaps; get_current_recap, next_recap and
\* previous_recap return None) or Populated(index) with 0 <= index < Len(recaps),
\* where get_current_recap returns the record at the index.
C2_EmptyOrPopulated ==
    \/ /\ recaps = <<>>
       /\ ReturnedNone(get_current_recap(recaps, current_index))
       /\ ReturnedNone(next_recap(recaps, current_index).out)
       /\ ReturnedNone(previous_recap(recaps, current_index).out)
       /\ last.op \in {"get_current_recap", "next_recap", "previous_recap"}
             => ReturnedNone(last.out)
    \/ /\ recaps # <<>>
       /\ current_index \in 0..(Len(recaps) - 1)
       /\ get_current_recap(recaps, current_index) = Return(recaps[current_index + 1])
       /\ last.op \in {"get_current_recap", "next_recap", "previous_recap"}
             => last.out = Return(recaps[current_index + 1])

\* Populated(1) is still the state after a generate_recaps call that raised
C2_Witness ==
    /\ last.op = "generate_recaps"
    /\ Raised(last.out)
    /\ Len(recaps) = 2
    /\ current_index = 1

\* the recap was built from messages that a conversations.history call of this
\* generate_recaps call returned
FromThisCall(recap, calls) ==
    \E i \in DOMAIN calls :
        /\ calls[i].method = "conversations.history"
        /\ calls[i].arg = recap.channel_id
        /\ calls[i].resp.ok
        /\ Len(calls[i].resp.messages) = recap.total_messages
        /\ recap.total_messages > 0
        /\ \A j \in DOMAIN recap.preview_messages :
              recap.preview_messages[j].ts = calls[i].resp.messages[j].ts

\* C3 as claimed: after every generate_recaps call the cursor is 0 and every recap
\* of the list was generated by that call.
C3_ResetOnEveryCall ==
    last.op = "generate_recaps" =>
        /\ current_index = 0
        /\ \A i \in DOMAIN recaps : FromThisCall(recaps[i], last.calls)

\* C3 amended: after a generate_recaps call that returns, the cursor is 0 and the
\* recap list is the list returned, each recap generated by that call; a call that
\* raises leaves the recap list and the cursor as they were.
C3_ResetOnReturn ==
    /\ [](last.op = "generate_recaps" /\ Returned(last.out) =>
            /\ current_index = 0
            /\ recaps = last.out.value
            /\ \A i \in DOMAIN recaps : FromThisCall(recaps[i], last.calls))
    /\ [][last'.op = "generate_recaps" /\ Raised(last'.out) =>
            /\ recaps' = recaps
            /\ current_index' = current_index]_vars

\* a generate_recaps call has returned a one-recap list, after an earlier call had
\* fetched the messages of another channel (they are in message_cache)
C3_Witness ==
    /\ last.op = "generate_recaps"
    /\ Returned(last.out)
    /\ Len(recaps) = 1
    /\ current_index = 0
    /\ \E k \in DOMAIN message_cache : message_cache[k].channel # recaps[1].channel_id

\* C4 as claimed: a provider call of generate_recaps that is rejected makes
\* generate_recaps raise SlackPermissionError.
C4_PermissionErrorReachesCaller ==
    (/\ last.op = "generate_recaps"
     /\ \E i \in DOMAIN last.calls : ~last.calls[i].resp.ok)
        => /\ Raised(last.out)
           /\ last.out.exc.type = "SlackPermissionError"

-----------------------------------------------------------------------------
(* Claims: errors of the provider *)

\* C5: when the provider rejects the channel listing, get_channels raises a
\* SlackPermissionError that carries the method name, the provider's error code
\* and the needed and provided scopes the provider supplied; a list is returned
\* only for a listing the provider accepted, and it is that listing.
C5_ListingFailureRaises ==
    last.op = "get_channels" =>
        LET resp == last.calls[1].resp
        IN  /\ ~resp.ok =>
                  /\ Raised(last.out)
                  /\ last.out.exc.type = "SlackPermissionError"
                  /\ last.out.exc.method = "conversations.list"
                  /\ resp.error # Missing => last.out.exc.error = resp.error
                  /\ resp.needed # Missing => last.out.exc.needed = resp.needed
                  /\ resp.provided # Missing => last.out.exc.provided = resp.provided
            /\ Returned(last.out) => resp.ok /\ last.out.value = resp.channels

\* the listing was rejected with missing_scope and the error carries code and scopes
C5_Witness ==
    /\ last.op = "get_channels"
    /\ Raised(last.out)
    /\ last.out.exc.error = "missing_scope"
    /\ last.out.exc.needed = "channels:read"
    /\ last.out.exc.provided = "chat:write"

C7_ResolutionNeverRaises ==
    last.op \in {"resolve_channel", "resolve_user"} => ~Raised(last.out)

\* C8 as claimed: get_channel on an uncached id returns None when the provider
\* reports channel_not_found, raises only for scope failures, and on success
\* caches the record and returns it.
C8_NotFoundIsAbsent ==
    (last.op = "get_channel" /\ last.calls # <<>>) =>
        LET resp == last.calls[1].resp
        IN  /\ resp.ok =>
                  /\ last.out = Return(resp.channel)
                  /\ channel_cache[last.arg] = resp.channel
            /\ resp = ChannelNotFound => ReturnedNone(last.out)
            /\ Raised(last.out) => resp = MissingScope

-----------------------------------------------------------------------------
(* Claims: resolution and the cache *)

RECURSIVE StripLeading(_, _)
StripLeading(s, ch) ==
    IF Len(s) > 0 /\ s[1] = ch THEN StripLeading(SubSeq(s, 2, Len(s)), ch) ELSE s

\* C9 as claimed: resolve_channel issues no provider call when the identifier,
\* its leading '#' stripped, has an id prefix or is a cache key, and one
\* conversations.list call with the given types otherwise; it returns the
\* identifier itself (id prefix), the id of the record cached under it, or None
\* when it is not cached after the refresh.
C9_ResolveChannel ==
    [][last'.op = "resolve_channel" =>
        LET ident == StripLeading(last'.arg[1], "#")
            isId == Len(ident) > 0 /\ ident[1] \in {"C", "D", "G"}
        IN  /\ (isId \/ ident \in DOMAIN channel_cache) => last'.calls = <<>>
            /\ ~(isId \/ ident \in DOMAIN channel_cache) =>
                  /\ Len(last'.calls) = 1
                  /\ last'.calls[1].method = "conversations.list"
                  /\ last'.calls[1].arg = last'.arg[2]
            /\ IF isId THEN last'.out = Return(ident)
               ELSE IF ident \in DOMAIN channel_cache'
               THEN last'.out = Return(channel_cache'[ident].id)
               ELSE ReturnedNone(last'.out)]_vars

\* the last index of the listing whose record carries key k as id or name
LastCarrying(listing, k) ==
    Max({j \in DOMAIN listing : listing[j].id = k \/ listing[j].name = k})

\* C10 as claimed: after get_channels returns, the cache lookups by r.id and by
\* r.name give an equal record, for every returned record r.
C10_IdAndNameSameRecord ==
    (last.op = "get_channels" /\ Returned(last.out)) =>
        \A i \in DOMAIN last.out.value :
            LET r == last.out.value[i]
            IN  /\ r.id \in DOMAIN channel_cache
                /\ r.name \in DOMAIN channel_cache
                /\ channel_cache[r.id] = channel_cache[r.name]

\* C10 amended: after get_channels returns, each id and each name of a returned
\* record resolves to the last record of the listing that carries it, so that
\* for a named record r whose id and name no later record carries, both lookups
\* give r; a record without a name is cached under its id only.
C10_LastWriteWins ==
    (last.op = "get_channels" /\ Returned(last.out)) =>
        LET listing == last.out.value
        IN  \A i \in DOMAIN listing :
                LET r == listing[i]
                IN  /\ r.id \in DOMAIN channel_cache
                    /\ channel_cache[r.id] = listing[LastCarrying(listing, r.id)]
                    /\ r.name # None =>
                          /\ r.name \in DOMAIN channel_cache
                          /\ channel_cache[r.name] = listing[LastCarrying(listing, r.name)]
                    /\ (/\ r.name # None
                        /\ \A j \in DOMAIN listing :
                              j > i => {listing[j].id, listing[j].name} \cap {r.id, r.name} = {})
                          => channel_cache[r.id] = r /\ channel_cache[r.name] = r
                    /\ r.name = None => None \notin DOMAIN channel_cache

\* a listing of two channels with different ids and different names has been
\* cached: each id and each name resolves to its record
C10_Witness ==
    /\ last.op = "get_channels"
    /\ Returned(last.out)
    /\ Len(last.out.value) = 2
    /\ last.out.value[1].id # last.out.value[2].id
    /\ last.out.value[1].name = general
    /\ last.out.value[2].name = random
    /\ channel_cache[general] = last.out.value[1]
    /\ channel_cache[last.out.value[1].id] = last.out.value[1]
    /\ channel_cache[random] = last.out.value[2]
    /\ channel_cache[last.out.value[2].id] = last.out.value[2]

-----------------------------------------------------------------------------
(* The directory cache over a process run: channel and user operations *)

DirectoryIdentifiers == {general, nochan}
DirectoryUserIdentifiers == {alice, nouser}

NextDirectory ==
    \/ GetChannels({"public_channel"}, ResolveListResponses)
    \/ GetChannel
    \/ ResolveChannel(DirectoryIdentifiers, {"public_channel"}, ResolveListResponses)
    \/ GetUsers(ResolveUserListResponses)
    \/ GetUser
    \/ ResolveUser(DirectoryUserIdentifiers, ResolveUserListResponses)

SpecDirectory == Init /\ [][NextDirectory]_vars

\* the step issued a call of the listing method and the provider accepted it
ListingAccepted(calls, method) ==
    \E i \in DOMAIN calls : calls[i].method = method /\ calls[i].resp.ok

\* C11: the directory cache never expires.  Every key of channel_cache and of
\* user_cache is still a key after every step; get_channel and get_user on a
\* cached key return the cached record, issue no provider call and leave the
\* cache as it is; and the record under an existing key changes only in a step
\* in which a listing (conversations.list, users.list) was accepted.
C11_CacheNeverExpires ==
    [][/\ DOMAIN channel_cache \subseteq DOMAIN channel_cache'
       /\ DOMAIN user_cache \subseteq DOMAIN user_cache'
       /\ (last'.op = "get_channel" /\ last'.arg \in DOMAIN channel_cache) =>
              /\ last'.calls = <<>>
              /\ last'.out = Return(channel_cache[last'.arg])
              /\ channel_cache' = channel_cache
       /\ (last'.op = "get_user" /\ last'.arg \in DOMAIN user_cache) =>
              /\ last'.calls = <<>>
              /\ last'.out = Return(user_cache[last'.arg])
              /\ user_cache' = user_cache
       /\ (\E k \in DOMAIN channel_cache : channel_cache'[k] # channel_cache[k]) =>
              ListingAccepted(last'.calls, "conversations.list")
       /\ (\E k \in DOMAIN user_cache : user_cache'[k] # user_cache[k]) =>
              ListingAccepted(last'.calls, "users.list")]_vars

\* get_channel answered from the cache, of a record that a single lookup stored
\* under a name the listing does not give it, while users are cached too
C11_Witness ==
    /\ last.op = "get_channel"
    /\ last.arg = C1
    /\ last.calls = <<>>
    /\ last.out = Return(Channel(C1, random, TRUE))
    /\ channel_cache[C1] = Channel(C1, random, TRUE)
    /\ U1 \in DOMAIN user_cache

-----------------------------------------------------------------------------
(* Settings: the VIP registry *)

VipUser(user_id, username) == [id |-> user_id, username |-> username]

\* user in self.vip_users
InList(x, l) == \E i \in DOMAIN l : l[i] = x

add_vip_user(vips, user_id, username) ==
    LET user == VipUser(user_id, username)
    IN  IF ~InList(user, vips) THEN Append(vips, user) ELSE vips

\* [u for u in self.vip_users if u["id"] != user_id]
remove_vip_user(vips, user_id) == SelectSeq(vips, LAMBDA u : u.id # user_id)

get_vip_users(vips) == vips

-----------------------------------------------------------------------------
(* VIPListener *)

\* a message that get_vip_messages retained, with its channel
VipMessage(msg, channel) ==
    [ts |-> msg.ts, user |-> msg.user, reply_count |-> msg.reply_count,
     msg_id |-> msg.msg_id, channel_id |-> channel.id, channel_name |-> channel.name]

RECURSIVE VipFilter_keep_all(_, _, _)
\* the inner loop without the test of the sender
VipFilter_keep_all(messages, channel, vip_user_ids) ==
    IF messages = <<>> THEN Return(<<>>)
    ELSE IF channel.name = None THEN Raise(KeyError("name"))
    ELSE LET rest == VipFilter_keep_all(Tail(messages), channel, vip_user_ids)
         IN  IF Raised(rest) THEN rest
             ELSE Return(<<VipMessage(Head(messages), channel)>> \o rest.value)

RECURSIVE VipFilter(_, _, _)
\* for msg in messages: if msg.get('user') in vip_user_ids, annotate and append;
\* channel['name'] raises KeyError for a channel without a name
VipFilter(messages, channel, vip_user_ids) ==
    IF messages = <<>> THEN Return(<<>>)
    ELSE IF Head(messages).user \in vip_user_ids
    THEN IF channel.name = None THEN Raise(KeyError("name"))
         ELSE LET rest == VipFilter(Tail(messages), channel, vip_user_ids)
              IN  IF Raised(rest) THEN rest
                  ELSE Return(<<VipMessage(Head(messages), channel)>> \o rest.value)
    ELSE VipFilter(Tail(messages), channel, vip_user_ids)

RECURSIVE InsertDescTs_unstable(_, _)
\* x placed before the elements of equal float(ts): ties are reversed
InsertDescTs_unstable(sorted, x) ==
    IF sorted = <<>> THEN <<x>>
    ELSE IF float(Head(sorted).ts) > float(x.ts)
         THEN <<Head(sorted)>> \o InsertDescTs_unstable(Tail(sorted), x)
         ELSE <<x>> \o sorted

RECURSIVE InsertDescTs(_, _)
\* x placed behind every element whose float(ts) is not smaller
InsertDescTs(sorted, x) ==
    IF sorted = <<>> THEN <<x>>
    ELSE IF float(Head(sorted).ts) >= float(x.ts)
         THEN <<Head(sorted)>> \o InsertDescTs(Tail(sorted), x)
         ELSE <<x>> \o sorted

RECURSIVE SortByTs(_)
\* list.sort(key=float(ts), reverse=True), a stable sort
SortByTs(msgs) ==
    IF msgs = <<>> THEN <<>>
    ELSE InsertDescTs(SortByTs(SubSeq(msgs, 1, Len(msgs) - 1)), msgs[Len(msgs)])

RECURSIVE VipLoop(_, _, _, _, _, _, _, _, _)
\* the for loop of get_vip_messages over channels; hist[k] is the provider's
\* answer to the k-th get_messages call.  No exception is caught.
VipLoop(mcache, channels, vip_user_ids, limit, hist, i, k, vip_messages, calls) ==
    IF i > Len(channels)
    THEN [message_cache |-> mcache, out |-> Return(vip_messages), calls |-> calls]
    ELSE LET channel == channels[i]
         IN  IF ~channel.is_member
             THEN VipLoop(mcache, channels, vip_user_ids, limit, hist, i + 1, k,
                          vip_messages, calls)
             ELSE LET g == get_messages(mcache, channel.id, limit, hist[k])
                      kept == VipFilter(g.out.value, channel, vip_user_ids)
                  IN  IF Raised(g.out)
                      THEN [message_cache |-> g.message_cache, out |-> g.out,
                            calls |-> calls \o g.calls]
                      ELSE IF Raised(kept)
                      THEN [message_cache |-> g.message_cache, out |-> kept,
                            calls |-> calls \o g.calls]
                      ELSE VipLoop(g.message_cache, channels, vip_user_ids, limit, hist,
                                   i + 1, k + 1, vip_messages \o kept.value,
                                   calls \o g.calls)

\* get_channels(): the default types
DefaultTypes == "public_channel"

\* get_vip_messages without the early return for an empty registry
get_vip_messages_no_guard(ccache, mcache, vips, limit_per_channel, resp, hist) ==
    LET vip_user_ids == {get_vip_users(vips)[i].id : i \in DOMAIN vips}
        l == get_channels(ccache, DefaultTypes, resp)
    IN  IF Raised(l.out)
        THEN [channel_cache |-> l.channel_cache, message_cache |-> mcache,
              out |-> l.out, calls |-> l.calls]
        ELSE LET loop == VipLoop(mcache, l.out.value, vip_user_ids,
                                 limit_per_channel, hist, 1, 1, <<>>, l.calls)
             IN  [channel_cache |-> l.channel_cache,
                  message_cache |-> loop.message_cache,
                  out |-> IF Raised(loop.out) THEN loop.out
                          ELSE Return(SortByTs(loop.out.value)),
                  calls |-> loop.calls]

get_vip_messages(ccache, mcache, vips, limit_per_channel, resp, hist) ==
    LET vip_user_ids == {get_vip_users(vips)[i].id : i \in DOMAIN vips}
    IN  IF vip_user_ids = {}
        THEN [channel_cache |-> ccache, message_cache |-> mcache,
              out |-> Return(<<>>), calls |-> <<>>]
        ELSE LET l == get_channels(ccache, DefaultTypes, resp)
             IN  IF Raised(l.out)
                 THEN [channel_cache |-> l.channel_cache, message_cache |-> mcache,
                       out |-> l.out, calls |-> l.calls]
                 ELSE LET loop == VipLoop(mcache, l.out.value, vip_user_ids,
                                          limit_per_channel, hist, 1, 1, <<>>, l.calls)
                      IN  [channel_cache |-> l.channel_cache,
                           message_cache |-> loop.message_cache,
                           out |-> IF Raised(loop.out) THEN loop.out
                                   ELSE Return(SortByTs(loop.out.value)),
                           calls |-> loop.calls]

-----------------------------------------------------------------------------
(* The VIP view: the registry is edited and the VIP messages are collected *)

VipCandidates == {VipUser(U1, alice), VipUser(U2, bob)}

\* public channels, each joined or not
VipChannels == {Channel(C1, general, m) : m \in BOOLEAN} \cup
               {Channel(C2, random, m) : m \in BOOLEAN}
VipListResponses ==
    {ListOk(l) : l \in {x \in SeqsUpTo(VipChannels, MaxListing) : NoRepeatedId(x)}}
        \cup {MissingScope}
\* histories in which senders and timestamps repeat and differ
VipHistories ==
    {<<>>, <<Message(MaxTs, U1, 0)>>, <<Message(1, U2, 0)>>,
     <<Message(1, U1, 0), Message(MaxTs, U1, 0)>>,
     <<Message(MaxTs, U2, 0), Message(MaxTs, U1, 0)>>}
VipHistResponses == {HistoryOk(h) : h \in VipHistories} \cup {MissingScope}

\* limit_per_channel: int = 50
LimitPerChannel == 50

AddVipUser(Candidates) ==
    \E c \in Candidates :
        /\ vip_users' = add_vip_user(vip_users, c.id, c.username)
        /\ last' = Call("add_vip_user", c.id, ReturnNone, <<>>)
        /\ UNCHANGED <<handlerVars, recapVars, tokens, tuiVars>>

RemoveVipUser(Candidates) ==
    \E c \in Candidates :
        /\ vip_users' = remove_vip_user(vip_users, c.id)
        /\ last' = Call("remove_vip_user", c.id, ReturnNone, <<>>)
        /\ UNCHANGED <<handlerVars, recapVars, tokens, tuiVars>>

GetVipMessages(ListResponses, HistResponses) ==
    \E resp \in AnswersTo(get_vip_messages(channel_cache, message_cache, vip_users,
                                           LimitPerChannel, MissingScope, <<>>).calls,
                          ListResponses) :
        \E hist \in [1..(IF resp.ok THEN Len(SelectMembers(resp.channels)) ELSE 0)
                        -> HistResponses] :
            \E r \in {get_vip_messages(channel_cache, message_cache, vip_users,
                                      LimitPerChannel, resp, hist)} :
                /\ channel_cache' = r.channel_cache
                /\ message_cache' = r.message_cache
                /\ last' = Call("get_vip_messages", None, r.out, r.calls)
                /\ UNCHANGED <<user_cache, recapVars, vip_users, tokens, tuiVars>>

NextVip ==
    \/ AddVipUser(VipCandidates)
    \/ RemoveVipUser(VipCandidates)
    \/ GetVipMessages(VipListResponses, VipHistResponses)

SpecVip == Init /\ [][NextVip]_vars

\* C12: with an empty VIP registry get_vip_messages returns the empty list and
\* issues no provider call: no channel listing, no message fetch; the caches of
\* the handler are as they were.
C12_EmptyRegistryNoCalls ==
    [][(last'.op = "get_vip_messages" /\ vip_users = <<>>) =>
           /\ last'.out = Return(<<>>)
           /\ last'.calls = <<>>
           /\ UNCHANGED handlerVars]_vars

\* get_vip_messages ran on a registry emptied again, after an earlier run that
\* fetched messages
C12_Witness ==
    /\ last.op = "get_vip_messages"
    /\ vip_users = <<>>
    /\ last.calls = <<>>
    /\ message_cache # EmptyDict

\* the message fetches of a get_vip_messages call: the calls behind the listing
Fetches(calls) == SubSeq(calls, 2, Len(calls))

\* the VIP ids of the registry
VipIds == {vip_users[i].id : i \in DOMAIN vip_users}

\* the places <<k, j>> of the fetched messages: message j of the k-th fetch
FetchedPlaces(calls) ==
    UNION {{<<k, j>> : j \in DOMAIN Fetches(calls)[k].resp.messages} :
              k \in {x \in DOMAIN Fetches(calls) : Fetches(calls)[x].resp.ok}}

\* the places whose sender is a VIP
VipPlaces(calls) ==
    {p \in FetchedPlaces(calls) : Fetches(calls)[p[1]].resp.messages[p[2]].user \in VipIds}

\* the fetched message at place p, with the id and name of the channel that the
\* listing gives for the fetch
Retained(calls, p) ==
    LET msg == Fetches(calls)[p[1]].resp.messages[p[2]]
        channel == SelectMembers(calls[1].resp.channels)[p[1]]
    IN  [ts |-> msg.ts, user |-> msg.user, reply_count |-> msg.reply_count,
         msg_id |-> md5_prefix(channel.id, msg.ts),
         channel_id |-> channel.id, channel_name |-> channel.name]

\* C13: the list that get_vip_messages returns holds exactly the fetched
\* messages of VIP senders.  The fetches are those of the member channels of
\* the listing, one each in listing order; every returned message is a fetched
\* message of a VIP sender with the id and name of its channel; and every
\* fetched message of a VIP sender is returned as often as it was fetched.
C13_ExactlyVipMessages ==
    (last.op = "get_vip_messages" /\ Returned(last.out) /\ last.calls # <<>>) =>
        LET calls == last.calls
            out == last.out.value
            members == SelectMembers(calls[1].resp.channels)
        IN  /\ Len(Fetches(calls)) = Len(members)
            /\ \A k \in DOMAIN members :
                  /\ Fetches(calls)[k].method = "conversations.history"
                  /\ Fetches(calls)[k].arg = members[k].id
            /\ \A i \in DOMAIN out :
                  /\ out[i].user \in VipIds
                  /\ \E c \in {members[k] : k \in DOMAIN members} :
                        c.id = out[i].channel_id /\ c.name = out[i].channel_name
                  /\ \E p \in VipPlaces(calls) : out[i] = Retained(calls, p)
            /\ \A p \in VipPlaces(calls) :
                  Cardinality({i \in DOMAIN out : out[i] = Retained(calls, p)})
                      = Cardinality({q \in VipPlaces(calls) :
                                        Retained(calls, q) = Retained(calls, p)})

\* two channels were listed, one of them not joined; the fetch of the joined one
\* gave a message of a VIP and a message of another sender, and one is returned
C13_Witness ==
    /\ last.op = "get_vip_messages"
    /\ Returned(last.out)
    /\ Len(last.calls) = 2
    /\ Len(last.calls[1].resp.channels) = 2
    /\ Cardinality(FetchedPlaces(last.calls)) = 2
    /\ Cardinality(VipPlaces(last.calls)) = 1
    /\ Len(last.out.value) = 1

\* place p comes before place q in collection order
PlaceBefore(p, q) == p[1] < q[1] \/ (p[1] = q[1] /\ p[2] < q[2])

\* C14: the list that get_vip_messages returns is in descending order of
\* float(ts), and messages of equal timestamp are in the order in which they
\* were collected: listing order of the channels, provider order in a channel.
C14_SortedStable ==
    (last.op = "get_vip_messages" /\ Returned(last.out) /\ last.calls # <<>>) =>
        LET calls == last.calls
            out == last.out.value
        IN  /\ \A a, b \in DOMAIN out : a < b => float(out[a].ts) >= float(out[b].ts)
            /\ \E place \in [DOMAIN out -> VipPlaces(calls)] :
                  /\ \A a \in DOMAIN out : out[a] = Retained(calls, place[a])
                  /\ \A a, b \in DOMAIN out : a # b => place[a] # place[b]
                  /\ \A a, b \in DOMAIN out :
                        (a < b /\ float(out[a].ts) = float(out[b].ts))
                            => PlaceBefore(place[a], place[b])

\* three VIP messages of two channels: two of the latest timestamp, one from
\* each channel, in front of an earlier one
C14_Witness ==
    /\ last.op = "get_vip_messages"
    /\ Returned(last.out)
    /\ Len(last.out.value) = 3
    /\ last.out.value[1].ts = MaxTs
    /\ last.out.value[2].ts = MaxTs
    /\ last.out.value[3].ts = 1
    /\ last.out.value[1].channel_id # last.out.value[2].channel_id
    /\ last.out.value[3].channel_id = last.out.value[1].channel_id

-----------------------------------------------------------------------------
(* Claims: the generated recap list *)

\* the fetches of the call whose answer was a history of at least one message
FetchesWithMessages(calls) ==
    {k \in DOMAIN Fetches(calls) :
        Fetches(calls)[k].resp.ok /\ Fetches(calls)[k].resp.messages # <<>>}

\* the fetches of the call whose answer was the empty history
FetchesWithoutMessages(calls) ==
    {k \in DOMAIN Fetches(calls) :
        Fetches(calls)[k].resp.ok /\ Fetches(calls)[k].resp.messages = <<>>}

\* C15: a member channel whose fetch returns zero messages has no recap in the
\* list, and generate_recaps raises nothing for it: the call returns, with a
\* recap for every other channel whose fetch returned messages.
C15_EmptyChannelSkipped ==
    (/\ last.op = "generate_recaps"
     /\ last.calls # <<>>
     /\ last.calls[1].resp.ok
     /\ FetchesWithoutMessages(last.calls) # {}) =>
        /\ Returned(last.out)
        /\ \A k \in FetchesWithoutMessages(last.calls) :
              \A i \in DOMAIN last.out.value :
                  last.out.value[i].channel_id # Fetches(last.calls)[k].arg
        /\ \A k \in FetchesWithMessages(last.calls) :
              \E i \in DOMAIN last.out.value :
                  /\ last.out.value[i].channel_id = Fetches(last.calls)[k].arg
                  /\ last.out.value[i].total_messages
                         = Len(Fetches(last.calls)[k].resp.messages)

\* of two member channels the first returned no message and the second two: the
\* list holds the recap of the second only
C15_Witness ==
    /\ last.op = "generate_recaps"
    /\ Returned(last.out)
    /\ Len(last.calls) = 3
    /\ FetchesWithoutMessages(last.calls) = {1}
    /\ FetchesWithMessages(last.calls) = {2}
    /\ Len(last.out.value) = 1
    /\ last.out.value[1].channel_id = last.calls[3].arg
    /\ last.out.value[1].total_messages = 2

\* C16: the list that generate_recaps returns holds exactly one recap for each
\* member channel of the listing whose fetch returned at least one message, no
\* recap for any other channel, and latest_timestamp does not increase from
\* first to last.
C16_OneRecapPerActiveMember ==
    (last.op = "generate_recaps" /\ Returned(last.out)) =>
        LET calls == last.calls
            out == last.out.value
            listing == calls[1].resp.channels
            members == {i \in DOMAIN listing : listing[i].is_member}
            fetched(i) == \E k \in FetchesWithMessages(calls) :
                              /\ Fetches(calls)[k].arg = listing[i].id
                              /\ k = Cardinality({j \in members : j <= i})
        IN  /\ Len(Fetches(calls)) = Cardinality(members)
            /\ \A i \in members :
                  Cardinality({a \in DOMAIN out : out[a].channel_id = listing[i].id})
                      = IF fetched(i) THEN 1 ELSE 0
            /\ \A a \in DOMAIN out :
                  \E i \in members : fetched(i) /\ out[a].channel_id = listing[i].id
                                                /\ out[a].channel_name = listing[i].name
            /\ \A i \in DOMAIN listing :
                  ~listing[i].is_member =>
                      \A a \in DOMAIN out : out[a].channel_id # listing[i].id
            /\ \A a, b \in DOMAIN out :
                  a < b => out[a].latest_timestamp >= out[b].latest_timestamp

\* two member channels were listed with the earlier activity first: the list
\* holds both recaps, the later activity in front
C16_Witness ==
    /\ last.op = "generate_recaps"
    /\ Returned(last.out)
    /\ Len(last.out.value) = 2
    /\ last.out.value[1].channel_id = last.calls[1].resp.channels[2].id
    /\ last.out.value[2].channel_id = last.calls[1].resp.channels[1].id
    /\ last.out.value[1].latest_timestamp > last.out.value[2].latest_timestamp

-----------------------------------------------------------------------------
(* _create_recap as a function of the channel and its fetched messages *)

\* most messages of one fetch
MaxMessages == 6

\* messages of two senders and of no sender, with and without replies
RecapMessagePool ==
    {Message(1, U1, 0), Message(1, U1, 1), Message(MaxTs, U2, 1), Message(MaxTs, None, 0)}

\* what get_messages hands to _create_recap: the messages of a non-empty
\* history, each with its msg_id
FetchedFor(channel) ==
    {AddMessageIds(EmptyDict, channel.id, h).messages :
        h \in SeqsUpTo(RecapMessagePool, MaxMessages) \ {<<>>}}

InitCreateRecap ==
    /\ channel_cache = EmptyDict
    /\ user_cache = EmptyDict
    /\ message_cache = EmptyDict
    /\ recaps = <<>>
    /\ current_index = 0
    /\ vip_users = <<>>
    /\ tokens = EmptyDict
    /\ default_types = <<"public_channel">>
    /\ allowed_types = "public_channel"
    /\ nav = "none"
    /\ \E channel \in {Channel(C1, general, TRUE), Channel(C2, random, TRUE)} :
          \E messages \in FetchedFor(channel) :
              last = Call("input", <<channel, messages>>, ReturnNone, <<>>)

CreateRecap ==
    /\ last.op = "input"
    /\ last' = Call("_create_recap", last.arg, _create_recap(last.arg[1], last.arg[2]), <<>>)
    /\ UNCHANGED <<handlerVars, recapVars, vip_users, tokens, tuiVars>>

NextCreateRecap == CreateRecap

SpecCreateRecap == InitCreateRecap /\ [][NextCreateRecap]_vars

\* C17: the recap that _create_recap builds from the n >= 1 messages of a channel
\* has total_messages = n, participants = the number of distinct sender ids of
\* the messages that have a sender, threads = the number of messages with
\* reply_count > 0, latest_timestamp = the greatest timestamp, and
\* preview_messages = the first min(5, n) messages in the order given.
C17_RecapStatistics ==
    (last.op = "_create_recap" /\ Len(last.arg[2]) >= 1) =>
        LET channel == last.arg[1]
            messages == last.arg[2]
            n == Len(messages)
            recap == last.out.value
        IN  /\ Returned(last.out)
            /\ recap.channel_id = channel.id
            /\ recap.channel_name = channel.name
            /\ recap.total_messages = n
            /\ recap.participants
                   = Cardinality({messages[i].user : i \in 1..n} \ {None})
            /\ recap.threads
                   = Cardinality({i \in 1..n : messages[i].reply_count > 0})
            /\ \E i \in 1..n : recap.latest_timestamp = messages[i].ts
            /\ \A i \in 1..n : recap.latest_timestamp >= messages[i].ts
            /\ Len(recap.preview_messages) = (IF n < 5 THEN n ELSE 5)
            /\ \A j \in DOMAIN recap.preview_messages :
                  recap.preview_messages[j] = messages[j]

\* six messages, the same sender twice, a message without a sender, two threads,
\* the latest message not the first: the preview stops at five
C17_Witness ==
    /\ last.op = "_create_recap"
    /\ Len(last.arg[2]) = 6
    /\ last.out.value.total_messages = 6
    /\ last.out.value.participants = 2
    /\ last.out.value.threads = 2
    /\ last.arg[2][1].ts = 1
    /\ last.out.value.latest_timestamp = MaxTs
    /\ Len(last.out.value.preview_messages) = 5
    /\ \E i \in 1..6 : last.arg[2][i].user = None

-----------------------------------------------------------------------------
(* Autocomplete: fuzzy matching of channels and users.  Strings are sequences *)
(* of one-character strings.                                                  *)

UpperCaseLetters ==
    <<"A", "B", "C", "D", "E", "F", "G", "H", "I", "J", "K", "L", "M",
      "N", "O", "P", "Q", "R", "S", "T", "U", "V", "W", "X", "Y", "Z">>
LowerCaseLetters ==
    <<"a", "b", "c", "d", "e", "f", "g", "h", "i", "j", "k", "l", "m",
      "n", "o", "p", "q", "r", "s", "t", "u", "v", "w", "x", "y", "z">>

\* str.lower(): each upper-case letter becomes its lower-case letter
lower(s) ==
    [i \in DOMAIN s |->
        IF \E k \in DOMAIN UpperCaseLetters : UpperCaseLetters[k] = s[i]
        THEN LowerCaseLetters[CHOOSE k \in DOMAIN UpperCaseLetters : UpperCaseLetters[k] = s[i]]
        ELSE s[i]]

RECURSIVE rstrip(_, _)
\* str.rstrip(ch): every trailing ch is removed
rstrip(s, ch) ==
    IF s # <<>> /\ s[Len(s)] = ch THEN rstrip(SubSeq(s, 1, Len(s) - 1), ch) ELSE s

\* strip that removes the leading characters only
strip_leading_only(s, ch) == lstrip(s, ch)

\* str.strip(ch): every leading and every trailing ch is removed
strip(s, ch) == rstrip(lstrip(s, ch), ch)

\* s.startswith(prefix)
str_startswith(s, prefix) ==
    Len(prefix) <= Len(s) /\ SubSeq(s, 1, Len(prefix)) = prefix

RECURSIVE str_contains(_, _)
\* sub in s
str_contains(s, sub) ==
    IF Len(sub) > Len(s) THEN FALSE
    ELSE str_startswith(s, sub) \/ str_contains(Tail(s), sub)

\* all(c in name for c in query)
all_chars_in(query, name) ==
    \A i \in DOMAIN query : \E j \in DOMAIN name : name[j] = query[i]

\* the if/elif chain of fuzzy_match_channels: the score, or 0 when no branch applies
\* and nothing is appended
channel_score(name, query) ==
    IF name = query THEN 100
    ELSE IF str_startswith(name, query) THEN 90
    ELSE IF str_contains(name, query) THEN 70
    ELSE IF all_chars_in(query, name) THEN 50
    ELSE 0

RECURSIVE ChannelMatches(_, _)
\* for channel in channels: channel['name'] raises KeyError when there is no name
ChannelMatches(channels, query) ==
    IF channels = <<>> THEN Return(<<>>)
    ELSE IF Head(channels).name = None THEN Raise(KeyError("name"))
    ELSE LET score == channel_score(lower(Head(channels).name), query)
             rest == ChannelMatches(Tail(channels), query)
         IN  IF Raised(rest) THEN rest
             ELSE IF score > 0 THEN Return(<<<<Head(channels), score>>>> \o rest.value)
             ELSE rest

RECURSIVE InsertDescScore_unstable(_, _)
\* x placed before the elements of equal score: ties are reversed
InsertDescScore_unstable(sorted, x) ==
    IF sorted = <<>> THEN <<x>>
    ELSE IF Head(sorted)[2] > x[2]
         THEN <<Head(sorted)>> \o InsertDescScore_unstable(Tail(sorted), x)
         ELSE <<x>> \o sorted

RECURSIVE InsertDescScore(_, _)
\* x placed behind every element whose score is not smaller
InsertDescScore(sorted, x) ==
    IF sorted = <<>> THEN <<x>>
    ELSE IF Head(sorted)[2] >= x[2]
         THEN <<Head(sorted)>> \o InsertDescScore(Tail(sorted), x)
         ELSE <<x>> \o sorted

RECURSIVE SortMatches(_)
\* matches.sort(key=lambda x: x[1], reverse=True), a stable sort
SortMatches(matches) ==
    IF matches = <<>> THEN <<>>
    ELSE InsertDescScore(SortMatches(SubSeq(matches, 1, Len(matches) - 1)),
                         matches[Len(matches)])

fuzzy_match_channels(query, channels) ==
    LET q == strip(lower(query), "#")
        matches == ChannelMatches(channels, q)
    IN  IF Raised(matches) THEN matches ELSE Return(SortMatches(matches.value))

\* the if/elif chain of fuzzy_match_users
user_score(username, real_name, query) ==
    IF username = query THEN 100
    ELSE IF real_name = query THEN 95
    ELSE IF str_startswith(username, query) THEN 90
    ELSE IF str_contains(username, query) \/ str_contains(real_name, query) THEN 70
    ELSE 0

RECURSIVE UserMatches_with_deleted(_, _)
\* the loop without the test of user.get('deleted')
UserMatches_with_deleted(users, query) ==
    IF users = <<>> THEN <<>>
    ELSE LET user == Head(users)
             real_name == IF user.real_name = None THEN <<>> ELSE lower(user.real_name)
             score == user_score(lower(user.name), real_name, query)
         IN  IF score > 0
             THEN <<<<user, score>>>> \o UserMatches_with_deleted(Tail(users), query)
             ELSE UserMatches_with_deleted(Tail(users), query)

RECURSIVE UserMatches(_, _)
\* for user in users: deleted users are skipped; user.get('real_name', '')
UserMatches(users, query) ==
    IF users = <<>> THEN <<>>
    ELSE LET user == Head(users)
             real_name == IF user.real_name = None THEN <<>> ELSE lower(user.real_name)
             score == user_score(lower(user.name), real_name, query)
         IN  IF user.deleted THEN UserMatches(Tail(users), query)
             ELSE IF score > 0
             THEN <<<<user, score>>>> \o UserMatches(Tail(users), query)
             ELSE UserMatches(Tail(users), query)

fuzzy_match_users(query, users) ==
    LET q == strip(lower(query), "@")
    IN  Return(SortMatches(UserMatches(users, q)))

-----------------------------------------------------------------------------
(* The matchers as functions of the query and the listing *)

C3 == <<"C", "3">>
U3 == <<"U", "3">>
U4 == <<"U", "4">>

name_general == <<"g", "e", "n", "e", "r", "a", "l">>
name_general_eng == <<"g", "e", "n", "e", "r", "a", "l", "-", "e", "n", "g">>
name_random == <<"r", "a", "n", "d", "o", "m">>

\* channel names are lower-case in the workspace
MatchChannels ==
    {Channel(C1, name_general, TRUE), Channel(C2, name_general_eng, TRUE),
     Channel(C3, name_random, FALSE)}
ExampleListing ==
    <<Channel(C1, name_general, TRUE), Channel(C2, name_general_eng, TRUE),
      Channel(C3, name_random, FALSE)>>
MatchChannelListings ==
    {x \in SeqsUpTo(MatchChannels, MaxListing) : NoRepeatedId(x)} \cup {ExampleListing}

\* what a user types: the name, with '#', with capitals, a prefix, a substring,
\* letters of the name out of order, no letter of it, a '#' behind, nothing
ChannelQueries ==
    {name_general, <<"#">> \o name_general, <<"G", "e", "n", "E", "R", "A", "L">>,
     <<"g", "e", "n">>, <<"#", "#", "g", "e", "n">>, <<"e", "r", "a", "l">>,
     <<"l", "a", "g">>, <<"x", "y", "z">>, <<"r">>, <<"-">>,
     name_general \o <<"#">>, <<>>}

\* a user of the listing: real_name may be absent, deleted may be set
MatchUser(id, name, real_name, deleted) ==
    [id |-> id, name |-> name, real_name |-> real_name, deleted |-> deleted]

MatchUsers ==
    {MatchUser(U1, <<"a", "l">>, <<"A", "l", "i">>, FALSE),
     MatchUser(U2, <<"b", "o">>, <<"A", "l">>, FALSE),
     MatchUser(U3, <<"a", "l", "f">>, None, FALSE),
     MatchUser(U4, <<"a", "l">>, <<"A", "l">>, TRUE)}
MatchUserListings == {x \in SeqsUpTo(MatchUsers, MaxListing) : NoRepeatedId(x)}

UserQueries ==
    {<<"a", "l">>, <<"@", "a", "l">>, <<"A", "L">>, <<"a">>, <<"l">>, <<"l", "i">>,
     <<"z", "z">>, <<"a", "l", "@">>, <<>>}

InitFuzzy ==
    /\ channel_cache = EmptyDict
    /\ user_cache = EmptyDict
    /\ message_cache = EmptyDict
    /\ recaps = <<>>
    /\ current_index = 0
    /\ vip_users = <<>>
    /\ tokens = EmptyDict
    /\ default_types = <<"public_channel">>
    /\ allowed_types = "public_channel"
    /\ nav = "none"
    /\ \/ \E query \in ChannelQueries, channels \in MatchChannelListings :
              last = Call("input", <<"channels", query, channels>>, ReturnNone, <<>>)
       \/ \E query \in UserQueries, users \in MatchUserListings :
              last = Call("input", <<"users", query, users>>, ReturnNone, <<>>)

FuzzyMatchChannels ==
    /\ last.op = "input"
    /\ last.arg[1] = "channels"
    /\ last' = Call("fuzzy_match_channels", last.arg,
                    fuzzy_match_channels(last.arg[2], last.arg[3]), <<>>)
    /\ UNCHANGED <<handlerVars, recapVars, vip_users, tokens, tuiVars>>

FuzzyMatchUsers ==
    /\ last.op = "input"
    /\ last.arg[1] = "users"
    /\ last' = Call("fuzzy_match_users", last.arg,
                    fuzzy_match_users(last.arg[2], last.arg[3]), <<>>)
    /\ UNCHANGED <<handlerVars, recapVars, vip_users, tokens, tuiVars>>

NextFuzzy ==
    \/ FuzzyMatchChannels
    \/ FuzzyMatchUsers

SpecFuzzy == InitFuzzy /\ [][NextFuzzy]_vars

-----------------------------------------------------------------------------
(* Claims: fuzzy matching *)

RECURSIVE StripTrailing(_, _)
StripTrailing(s, ch) ==
    IF Len(s) > 0 /\ s[Len(s)] = ch THEN StripTrailing(SubSeq(s, 1, Len(s) - 1), ch) ELSE s

IsPrefixOf(q, s) == Len(q) <= Len(s) /\ \A i \in 1..Len(q) : s[i] = q[i]

IsSubstringOf(q, s) ==
    \E d \in 0..(Len(s) - Len(q)) : \A i \in 1..Len(q) : s[d + i] = q[i]

\* the score of the first tier of channel matching that applies, 0 when none does
ChannelTier(name, q) ==
    CASE name = q -> 100
      [] name # q /\ IsPrefixOf(q, name) -> 90
      [] ~IsPrefixOf(q, name) /\ IsSubstringOf(q, name) -> 70
      [] ~IsSubstringOf(q, name) /\ (\A i \in 1..Len(q) : \E j \in 1..Len(name) : name[j] = q[i])
            -> 50
      [] OTHER -> 0

\* the result holds each channel of the listing that has a tier for q, with the
\* score of that tier, and nothing else
ChannelsScoredFor(q, listing, out) ==
    /\ Len(out) = Cardinality({i \in DOMAIN listing : ChannelTier(listing[i].name, q) > 0})
    /\ \A a \in DOMAIN out :
          \E i \in DOMAIN listing :
              out[a] = <<listing[i], ChannelTier(listing[i].name, q)>>
    /\ \A i \in DOMAIN listing :
          ChannelTier(listing[i].name, q) > 0 =>
              \E a \in DOMAIN out : out[a] = <<listing[i], ChannelTier(listing[i].name, q)>>

\* C18 as claimed: with the query lower-cased and its leading '#' stripped, the
\* channel matcher gives each channel the score of the first tier that applies
\* (100 equal, 90 prefix, 70 substring, 50 every character present) and leaves
\* out the others; for general, general-eng, random and the query "general" the
\* result is general (100), general-eng (90).
C18_ChannelTiersLeadingStrip ==
    last.op = "fuzzy_match_channels" =>
        /\ Returned(last.out)
        /\ ChannelsScoredFor(StripLeading(lower(last.arg[2]), "#"), last.arg[3],
                             last.out.value)
        /\ (last.arg[2] = name_general /\ last.arg[3] = ExampleListing) =>
              last.out.value = <<<<ExampleListing[1], 100>>, <<ExampleListing[2], 90>>>>

\* C18 amended: the same, with every '#' stripped from both ends of the
\* lower-cased query.
C18_ChannelTiersBothEnds ==
    last.op = "fuzzy_match_channels" =>
        /\ Returned(last.out)
        /\ ChannelsScoredFor(StripTrailing(StripLeading(lower(last.arg[2]), "#"), "#"),
                             last.arg[3], last.out.value)
        /\ (last.arg[2] = name_general /\ last.arg[3] = ExampleListing) =>
              last.out.value = <<<<ExampleListing[1], 100>>, <<ExampleListing[2], 90>>>>

\* the query "general#" over general, general-eng, random: general (100), then
\* general-eng (90), random left out
C18_Witness ==
    /\ last.op = "fuzzy_match_channels"
    /\ last.arg[2] = name_general \o <<"#">>
    /\ last.arg[3] = ExampleListing
    /\ last.out = Return(<<<<ExampleListing[1], 100>>, <<ExampleListing[2], 90>>>>)

\* C19: the pairs that the channel matcher and the user matcher return are in
\* descending order of score, and records of equal score are in the order of
\* the input listing.
C19_DescendingStable ==
    (last.op \in {"fuzzy_match_channels", "fuzzy_match_users"} /\ Returned(last.out)) =>
        LET listing == last.arg[3]
            out == last.out.value
        IN  /\ \A a, b \in DOMAIN out : a < b => out[a][2] >= out[b][2]
            /\ \E place \in [DOMAIN out -> DOMAIN listing] :
                  /\ \A a \in DOMAIN out : out[a][1] = listing[place[a]]
                  /\ \A a, b \in DOMAIN out : a # b => place[a] # place[b]
                  /\ \A a, b \in DOMAIN out :
                        (a < b /\ out[a][2] = out[b][2]) => place[a] < place[b]

\* the query "r" over general, general-eng, random: random (90) is moved to the
\* front, general and general-eng (70 each) keep their order
C19_Witness ==
    /\ last.op = "fuzzy_match_channels"
    /\ last.arg[3] = ExampleListing
    /\ last.out = Return(<<<<ExampleListing[3], 90>>, <<ExampleListing[1], 70>>,
                           <<ExampleListing[2], 70>>>>)

\* the score of the first tier of user matching that applies, 0 when none does
UserTier(username, real_name, q) ==
    CASE username = q -> 100
      [] username # q /\ real_name = q -> 95
      [] username # q /\ real_name # q /\ IsPrefixOf(q, username) -> 90
      [] /\ real_name # q
         /\ ~IsPrefixOf(q, username)
         /\ (IsSubstringOf(q, username) \/ IsSubstringOf(q, real_name)) -> 70
      [] OTHER -> 0

\* the real name of a user, the empty string when the record has none
RealNameOf(user) == IF user.real_name = None THEN <<>> ELSE user.real_name

\* the result holds no deleted user, and each other user of the listing that has
\* a tier for q, with the score of that tier, and nothing else; names[i] and
\* reals[i] are the username and the real name of listing[i] as they are compared
UsersScoredFor(q, listing, names, reals, out) ==
    LET tier(i) == IF listing[i].deleted THEN 0
                   ELSE UserTier(names[i], reals[i], q)
    IN  /\ \A a \in DOMAIN out : ~out[a][1].deleted
        /\ Len(out) = Cardinality({i \in DOMAIN listing : tier(i) > 0})
        /\ \A a \in DOMAIN out :
              \E i \in DOMAIN listing : out[a] = <<listing[i], tier(i)>>
        /\ \A i \in DOMAIN listing :
              tier(i) > 0 => \E a \in DOMAIN out : out[a] = <<listing[i], tier(i)>>

\* C20 as claimed: with the query lower-cased and its leading '@' stripped, the
\* user matcher never returns a deleted user and gives each other user the
\* score of the first tier that applies (100 username equal, 95 real name
\* equal, 90 username prefix, 70 substring of username or real name), leaving
\* out the others.
C20_UserTiersAsWritten ==
    last.op = "fuzzy_match_users" =>
        /\ Returned(last.out)
        /\ UsersScoredFor(StripLeading(lower(last.arg[2]), "@"), last.arg[3],
                          [i \in DOMAIN last.arg[3] |-> last.arg[3][i].name],
                          [i \in DOMAIN last.arg[3] |-> RealNameOf(last.arg[3][i])],
                          last.out.value)

\* C20 amended: the same, with every '@' stripped from both ends of the
\* lower-cased query, and the username and the real name lower-cased before
\* they are compared (an absent real name is the empty string).
C20_UserTiersLowerCased ==
    last.op = "fuzzy_match_users" =>
        /\ Returned(last.out)
        /\ UsersScoredFor(StripTrailing(StripLeading(lower(last.arg[2]), "@"), "@"),
                          last.arg[3],
                          [i \in DOMAIN last.arg[3] |-> lower(last.arg[3][i].name)],
                          [i \in DOMAIN last.arg[3] |-> lower(RealNameOf(last.arg[3][i]))],
                          last.out.value)

\* the query "al" over a user whose real name is "Al" and a deleted user named
\* "al": the first is returned with 95, the deleted one is not returned
C20_Witness ==
    /\ last.op = "fuzzy_match_users"
    /\ last.arg[2] = <<"a", "l">>
    /\ Len(last.arg[3]) = 2
    /\ last.arg[3][1].real_name = <<"A", "l">>
    /\ ~last.arg[3][1].deleted
    /\ last.arg[3][2].deleted
    /\ last.arg[3][2].name = <<"a", "l">>
    /\ last.out = Return(<<<<last.arg[3][1], 95>>>>)

-----------------------------------------------------------------------------
(* MessageHandler: formatting *)

\* msg.get("user", ""): the empty string when the message has no user
UserOf(msg) == IF msg.user = None THEN <<>> ELSE msg.user

\* the formatted line, kept as the parts that the f-string joins: the local id,
\* the timestamp, the username and the thread marker
FormattedMessage(msg_id, ts, username, threaded) ==
    [msg_id |-> msg_id, time |-> ts, username |-> username, thread_marker |-> threaded]

\* format_message: get_user is called first and its exception is not caught; the
\* fallback to msg.get("user", "unknown") is taken when get_user returns a falsy value
format_message(cache, msg, compact, resp) ==
    LET g == get_user(cache, UserOf(msg), resp)
    IN  IF Raised(g.out) THEN g
        ELSE [user_cache |-> g.user_cache,
              out |-> Return(FormattedMessage(msg.msg_id, float(msg.ts),
                                              g.out.value.name, msg.reply_count > 0)),
              calls |-> g.calls]

\* the messages shown: of a cached or uncached user, or of no user
ShownMessages ==
    {[ts |-> 1, user |-> u, reply_count |-> n, msg_id |-> md5_prefix(C1, 1)] :
        u \in {U1, U9, None}, n \in {0, 1}}

FormatMessage ==
    \E msg \in ShownMessages, compact \in BOOLEAN :
        \E resp \in AnswersTo(format_message(user_cache, msg, compact, MissingScope).calls,
                               UserInfoResponses(UserOf(msg))) :
            \E r \in {format_message(user_cache, msg, compact, resp)} :
                /\ user_cache' = r.user_cache
                /\ last' = Call("format_message", <<msg, compact>>, r.out, r.calls)
                /\ UNCHANGED <<channel_cache, message_cache, recapVars, vip_users, tokens, tuiVars>>

NextFormat ==
    \/ GetUsers(UserListResponses)
    \/ FormatMessage

SpecFormat == Init /\ [][NextFormat]_vars

\* C21 as claimed: format_message never fails because the sender cannot be
\* resolved: when the lookup of the message's user id finds no user (the
\* provider answers user_not_found, or the message has no user id), the call
\* returns and the formatted line shows the raw user id as the username.
C21_FallbackToRawUserId ==
    (/\ last.op = "format_message"
     /\ last.calls # <<>>
     /\ last.calls[1].resp = UserNotFound) =>
        /\ Returned(last.out)
        /\ last.out.value.username = UserOf(last.arg[1])

-----------------------------------------------------------------------------
(* The VIP registry: add, remove, is_vip *)

\* any(u["id"] == user_id for u in self.vip_users)
is_vip(vips, user_id) == \E i \in DOMAIN vips : vips[i].id = user_id

\* two users, each known under either username (a user can be renamed)
RegistryCandidates == {VipUser(id, name) : id \in {U1, U2}, name \in {alice, bob}}

IsVip ==
    \E user_id \in {U1, U2} :
        /\ last' = Call("is_vip", user_id, Return(is_vip(vip_users, user_id)), <<>>)
        /\ UNCHANGED <<handlerVars, recapVars, vip_users, tokens, tuiVars>>

NextRegistry ==
    \/ AddVipUser(RegistryCandidates)
    \/ RemoveVipUser(RegistryCandidates)
    \/ IsVip

SpecRegistry == Init /\ [][NextRegistry]_vars

\* the entries of l are entries of m in the same relative order
KeepsOrder(l, m) ==
    \E place \in [DOMAIN l -> DOMAIN m] :
        /\ \A i \in DOMAIN l : l[i] = m[place[i]]
        /\ \A i, j \in DOMAIN l : i < j => place[i] < place[j]

\* C22 as claimed: after any sequence of add_vip_user and remove_vip_user calls
\* the list holds at most one entry per id, the entries that stay keep their
\* order and a new entry is added at the end, is_vip(id) is true exactly when an
\* entry with that id is in the list, and no entry with the id is left after
\* remove_vip_user(id).
C22_UniqueById ==
    /\ [](\A i, j \in DOMAIN vip_users : vip_users[i].id = vip_users[j].id => i = j)
    /\ [](last.op = "is_vip" =>
             last.out = Return(\E i \in DOMAIN vip_users : vip_users[i].id = last.arg))
    /\ [](last.op = "remove_vip_user" =>
             \A i \in DOMAIN vip_users : vip_users[i].id # last.arg)
    /\ [][/\ last'.op = "remove_vip_user" => KeepsOrder(vip_users', vip_users)
          /\ last'.op = "add_vip_user" =>
                 /\ KeepsOrder(vip_users, vip_users')
                 /\ Len(vip_users') > Len(vip_users) =>
                        SubSeq(vip_users', 1, Len(vip_users)) = vip_users]_vars

-----------------------------------------------------------------------------
(* RecapManager.format_recap and the key reader *)

RECURSIVE FormatLines(_, _, _, _)
\* for msg in recap['preview_messages']: self.handler.format_message(msg, compact=True);
\* uresps[i] is the provider's answer when the user of message i has to be looked up
FormatLines(ucache, msgs, uresps, i) ==
    IF i > Len(msgs) THEN [user_cache |-> ucache, out |-> Return(<<>>), calls |-> <<>>]
    ELSE LET f == format_message(ucache, msgs[i], TRUE, uresps[i])
             rest == FormatLines(f.user_cache, msgs, uresps, i + 1)
         IN  IF Raised(f.out) THEN f
             ELSE IF Raised(rest.out)
             THEN [user_cache |-> rest.user_cache, out |-> rest.out,
                   calls |-> f.calls \o rest.calls]
             ELSE [user_cache |-> rest.user_cache,
                   out |-> Return(<<f.out.value>> \o rest.out.value),
                   calls |-> f.calls \o rest.calls]

\* format_recap(recap, detailed): the text, kept as the parts it is joined from;
\* the footer shows current_index + 1 and len(self.recaps)
format_recap(ucache, recap, detailed, index, rs, uresps) ==
    LET lines == IF detailed THEN FormatLines(ucache, recap.preview_messages, uresps, 1)
                 ELSE [user_cache |-> ucache, out |-> Return(<<>>), calls |-> <<>>]
    IN  IF Raised(lines.out) THEN lines
        ELSE [user_cache |-> lines.user_cache,
              out |-> Return([channel_name |-> recap.channel_name,
                              total_messages |-> recap.total_messages,
                              participants |-> recap.participants,
                              threads |-> recap.threads,
                              lines |-> lines.out.value,
                              position |-> <<index + 1, Len(rs)>>]),
              calls |-> lines.calls]

RuntimeError == [type |-> "RuntimeError"]

\* one read of the terminal: the function called and the character it gave
StdinCall(fn, ch) == [method |-> fn, arg |-> 1, resp |-> ch]

\* the prefix byte of a special key under Windows
SpecialKey == <<"NUL">>

\* read_key that reads before it looks at the terminal
read_key_no_tty_test(isatty, os_name, ch) ==
    [out |-> Return(lower(ch)), calls |-> <<StdinCall("sys.stdin.read", ch)>>]

\* read_key: RuntimeError when stdin is not a TTY; msvcrt.getch() under Windows,
\* where a special key takes a second getch and gives ""; sys.stdin.read(1) otherwise
read_key(isatty, os_name, ch) ==
    IF ~isatty THEN [out |-> Raise(RuntimeError), calls |-> <<>>]
    ELSE IF os_name = "nt"
    THEN IF ch = SpecialKey
         THEN [out |-> Return(<<>>),
               calls |-> <<StdinCall("msvcrt.getch", ch), StdinCall("msvcrt.getch", ch)>>]
         ELSE [out |-> Return(lower(ch)), calls |-> <<StdinCall("msvcrt.getch", ch)>>]
    ELSE [out |-> Return(lower(ch)), calls |-> <<StdinCall("sys.stdin.read", ch)>>]

-----------------------------------------------------------------------------
(* _interactive_recap: the first display, then one iteration of its loop *)

\* the loop caught the exception, printed it and left
Caught(e) == [kind |-> "caught", exc |-> e]

\* the statements in front of the loop: the current recap is formatted and printed
interactive_recap_entry(ucache, rs, index, uresps) ==
    LET f == format_recap(ucache, get_current_recap(rs, index).value, TRUE, index, rs, uresps)
    IN  [user_cache |-> f.user_cache, current_index |-> index,
         nav |-> IF Raised(f.out) THEN "raised" ELSE "loop",
         out |-> f.out, calls |-> f.calls]

\* one iteration of "while True": read_key, the dispatch on the key, and the
\* display of the recap moved to.  Only RuntimeError of read_key is caught.
interactive_recap_iteration(ucache, rs, index, isatty, os_name, ch, uresps) ==
    LET k == read_key(isatty, os_name, ch)
        still == [user_cache |-> ucache, current_index |-> index, nav |-> "loop",
                  out |-> ReturnNone, calls |-> k.calls]
    IN  IF Raised(k.out)
        THEN [still EXCEPT !.nav = "exited", !.out = Caught(k.out.exc)]
        ELSE IF k.out.value = <<>> THEN still
        ELSE IF k.out.value \in {<<"q">>, <<"e">>}
        THEN LET m == IF k.out.value = <<"q">> THEN previous_recap(rs, index)
                      ELSE next_recap(rs, index)
                 f == format_recap(ucache, m.out.value, TRUE, m.current_index, rs, uresps)
             IN  [user_cache |-> f.user_cache, current_index |-> m.current_index,
                  nav |-> IF Raised(f.out) THEN "raised" ELSE "loop",
                  out |-> f.out, calls |-> k.calls \o f.calls]
        ELSE IF k.out.value = <<"x">> THEN [still EXCEPT !.nav = "exited"]
        ELSE still


\* the recap list at the call of _interactive_recap: built by _create_recap and
\* sorted by generate_recaps, never empty (show_recap returns before on an empty list)
NavRecapPool ==
    {_create_recap(Channel(C1, general, TRUE),
                   AddMessageIds(EmptyDict, C1, <<Message(MaxTs, U1, 0)>>).messages).value,
     _create_recap(Channel(C2, random, TRUE),
                   AddMessageIds(EmptyDict, C2,
                                 <<Message(1, U2, 1), Message(1, U1, 0)>>).messages).value,
     _create_recap(Channel(C3, name_random, TRUE),
                   AddMessageIds(EmptyDict, C3, <<Message(1, None, 0)>>).messages).value}
NavSessions ==
    {SortRecaps(l) : l \in {x \in SeqsUpTo(NavRecapPool, MaxListing) \ {<<>>} :
                               \A i, j \in DOMAIN x : x[i].channel_id = x[j].channel_id => i = j}}

\* the users already looked up when the recap is shown
NavUserCaches == {EmptyDict, DictPut(EmptyDict, U1, User(U1, alice))}

\* the provider's answers to the users.info calls of one display, message by message
UserAnswers(msgs) ==
    {f \in [DOMAIN msgs -> UNION {UserInfoResponses(UserOf(msgs[i])) : i \in DOMAIN msgs}] :
        \A i \in DOMAIN msgs : f[i] \in UserInfoResponses(UserOf(msgs[i]))}

\* the keys pressed: navigation keys in either case, exit, another key, end of
\* input (POSIX read gives ""), and a special key (Windows)
NavKeys == {<<"q">>, <<"Q">>, <<"e">>, <<"E">>, <<"x">>, <<"z">>, <<>>, SpecialKey}
OsNames == {"posix", "nt"}
KeysOf(os_name) == IF os_name = "nt" THEN NavKeys \ {<<>>} ELSE NavKeys \ {SpecialKey}

\* the preview messages of the recap that the key brings to the screen
ShownBy(rs, index, key) ==
    IF Raised(key) THEN <<>>
    ELSE IF key.value = <<"q">> THEN previous_recap(rs, index).out.value.preview_messages
    ELSE IF key.value = <<"e">> THEN next_recap(rs, index).out.value.preview_messages
    ELSE <<>>

InitNavigation ==
    /\ channel_cache = EmptyDict
    /\ user_cache \in NavUserCaches
    /\ message_cache = EmptyDict
    /\ recaps \in NavSessions
    /\ current_index = 0
    /\ vip_users = <<>>
    /\ tokens = EmptyDict
    /\ default_types = <<"public_channel">>
    /\ allowed_types = "public_channel"
    /\ nav = "entry"
    /\ last = Call("input", None, ReturnNone, <<>>)

InteractiveRecapEntry ==
    /\ nav = "entry"
    /\ \E uresps \in UserAnswers(get_current_recap(recaps, current_index).value.preview_messages) :
          \E r \in {interactive_recap_entry(user_cache, recaps, current_index, uresps)} :
              /\ user_cache' = r.user_cache
              /\ nav' = r.nav
              /\ last' = Call("_interactive_recap", None, r.out, r.calls)
    /\ UNCHANGED <<channel_cache, message_cache, recapVars, vip_users, tokens, default_types, allowed_types>>

InteractiveRecapIteration ==
    /\ nav = "loop"
    /\ \E isatty \in BOOLEAN, os_name \in OsNames :
          \E ch \in KeysOf(os_name) :
              \E uresps \in UserAnswers(ShownBy(recaps, current_index,
                                                read_key(isatty, os_name, ch).out)) :
                  \E r \in {interactive_recap_iteration(user_cache, recaps, current_index,
                                                        isatty, os_name, ch, uresps)} :
                      /\ user_cache' = r.user_cache
                      /\ current_index' = r.current_index
                      /\ nav' = r.nav
                      /\ last' = Call("while True",
                                      [isatty |-> isatty, os_name |-> os_name, key |-> ch],
                                      r.out, r.calls)
    /\ UNCHANGED <<channel_cache, message_cache, recaps, vip_users, tokens, default_types, allowed_types>>

NextNavigation ==
    \/ InteractiveRecapEntry
    \/ InteractiveRecapIteration

SpecNavigation == InitNavigation /\ [][NextNavigation]_vars

-----------------------------------------------------------------------------
(* Claims on the recap navigation loop *)

\* C23: an error raised inside the navigation loop (such as the permission error
\* of a user lookup while the preview messages are formatted) is caught there:
\* after an iteration that met one, the loop is still running and the function
\* has not been left by the exception.
C23_ErrorKeepsLoopRunning ==
    (last.op = "while True" /\ Raised(last.out)) => nav = "loop"


\* C26: when standard input is not a TTY, read_key raises RuntimeError before
\* anything is read from the terminal, and the iteration of the navigation loop
\* that met it ends the loop with the recap cursor where it was.
C26_NoTtyEndsLoop ==
    [][(nav = "loop" /\ last'.op = "while True" /\ ~last'.arg.isatty)
          => /\ last'.out = Caught(RuntimeError)
             /\ last'.calls = <<>>
             /\ nav' = "exited"
             /\ current_index' = current_index
             /\ recaps' = recaps]_vars

\* the loop was left on the missing TTY after the cursor had been moved
C26_Witness ==
    /\ last.op = "while True"
    /\ ~last.arg.isatty
    /\ last.out = Caught(RuntimeError)
    /\ nav = "exited"
    /\ current_index > 0


-----------------------------------------------------------------------------
(* Settings: the token, and SlackAuth.authenticate *)

\* Python truth of an optional string: neither None nor ""
Truthy(v) == v # None /\ v # <<>>

\* d.get(k)
DictGet(d, k) == IF k \in DOMAIN d THEN d[k] ELSE None

\* the legacy variable asked first
get_token_from_env_legacy_first(environ) ==
    IF Truthy(environ.SLACK_TUI_TOKEN) THEN environ.SLACK_TUI_TOKEN ELSE environ.SLACK_TOKEN

\* os.environ.get("SLACK_TOKEN") or os.environ.get("SLACK_TUI_TOKEN")
get_token_from_env(environ) ==
    IF Truthy(environ.SLACK_TOKEN) THEN environ.SLACK_TOKEN ELSE environ.SLACK_TUI_TOKEN

get_token(environ, toks) ==
    LET token == get_token_from_env(environ)
    IN  IF Truthy(token) THEN token ELSE DictGet(toks, "token")

save_token(toks, token) == DictPut(toks, "token", token)

\* SUPPORTED_TOKEN_TYPES, in the order of the dict: prefix and name of the type
SUPPORTED_TOKEN_TYPES ==
    << <<<<"x", "o", "x", "p", "-">>, <<"User OAuth Token">> >>,
       <<<<"x", "o", "x", "b", "-">>, <<"Bot User OAuth Token">> >>,
       <<<<"x", "o", "x", "e", ".", "x", "o", "x", "p", "-">>, <<"App Bot Access Token">> >>,
       <<<<"x", "o", "x", "e", "-">>, <<"App Bot Refresh Token">> >>,
       <<<<"x", "a", "p", "p", "-">>, <<"App-Level Token">> >> >>

RECURSIVE DetectFrom(_, _)
DetectFrom(token, i) ==
    IF i > Len(SUPPORTED_TOKEN_TYPES) THEN None
    ELSE IF str_startswith(token, SUPPORTED_TOKEN_TYPES[i][1]) THEN SUPPORTED_TOKEN_TYPES[i][2]
    ELSE DetectFrom(token, i + 1)

_detect_token_type(token) == DetectFrom(token, 1)

\* AuthError, told apart by the case that raises it
AuthError(reason) == [type |-> "AuthError", reason |-> reason]

AuthTestOk == [ok |-> TRUE, user |-> <<"a", "l">>, team |-> <<"t">>]

\* SlackAuth.authenticate(token): the token is the argument, else Settings.get_token();
\* its type is detected, auth.test is called with it, and it is saved on success
authenticate(token, environ, toks, resp) ==
    LET auth_token == IF Truthy(token) THEN token ELSE get_token(environ, toks)
        token_type == _detect_token_type(auth_token)
        call == ProviderCall("auth.test", auth_token, resp)
    IN  IF ~Truthy(auth_token)
        THEN [tokens |-> toks, out |-> Raise(AuthError("no_token")), calls |-> <<>>]
        ELSE IF token_type = None
        THEN [tokens |-> toks,
              out |-> Raise(AuthError(IF str_startswith(auth_token, <<"x", "o", "x">>)
                                      THEN "unrecognized_format" ELSE "invalid_format")),
              calls |-> <<>>]
        ELSE IF resp.ok
        THEN [tokens |-> save_token(toks, auth_token),
              out |-> Return(<<TRUE, [user |-> resp.user, team |-> resp.team,
                                      token_type |-> token_type]>>),
              calls |-> <<call>>]
        ELSE [tokens |-> toks, out |-> Raise(AuthError(resp.error)), calls |-> <<call>>]

\* tokens of the four origins, one of an unsupported type and one of no type
CliToken == <<"x", "o", "x", "p", "-", "c">>
EnvToken == <<"x", "o", "x", "b", "-", "e">>
LegacyToken == <<"x", "a", "p", "p", "-", "l">>
FileToken == <<"x", "o", "x", "e", ".", "x", "o", "x", "p", "-", "f">>
BadToken == <<"x", "o", "x", "z", "-", "b">>
NoToken == <<"t", "o", "k">>

CliTokens == {None, <<>>, CliToken, BadToken}
Environments ==
    [SLACK_TOKEN : {None, <<>>, EnvToken}, SLACK_TUI_TOKEN : {None, <<>>, LegacyToken, NoToken}]
TokenFiles == {EmptyDict, save_token(EmptyDict, <<>>), save_token(EmptyDict, FileToken)}
AuthTestResponses ==
    {AuthTestOk, ApiError("invalid_auth", Missing, Missing),
     ApiError("token_revoked", Missing, Missing)}

InitToken ==
    /\ channel_cache = EmptyDict
    /\ user_cache = EmptyDict
    /\ message_cache = EmptyDict
    /\ recaps = <<>>
    /\ current_index = 0
    /\ vip_users = <<>>
    /\ tokens \in TokenFiles
    /\ default_types = <<"public_channel">>
    /\ allowed_types = "public_channel"
    /\ nav = "none"
    /\ last = Call("input", None, ReturnNone, <<>>)

Authenticate ==
    \E token \in CliTokens, environ \in Environments :
        \E resp \in AnswersTo(authenticate(token, environ, tokens, AuthTestOk).calls,
                               AuthTestResponses) :
            \E r \in {authenticate(token, environ, tokens, resp)} :
                /\ tokens' = r.tokens
                /\ last' = Call("authenticate",
                                [token |-> token, environ |-> environ,
                                 saved |-> DictGet(tokens, "token")],
                                r.out, r.calls)
                /\ UNCHANGED <<handlerVars, recapVars, vip_users, tuiVars>>

NextToken == Authenticate

SpecToken == InitToken /\ [][NextToken]_vars

-----------------------------------------------------------------------------
(* Claim on the token *)

\* the candidates in the order of precedence: command line, SLACK_TOKEN,
\* SLACK_TUI_TOKEN, config file
Candidates(arg) ==
    <<arg.token, arg.environ.SLACK_TOKEN, arg.environ.SLACK_TUI_TOKEN, arg.saved>>

RECURSIVE FirstWith(_, _, _)
\* the first candidate that counts, None when there is none
FirstWith(cands, Counts(_), i) ==
    IF i > Len(cands) THEN None
    ELSE IF Counts(cands[i]) THEN cands[i]
    ELSE FirstWith(cands, Counts, i + 1)

Given(v) == v # None

\* authentication goes to the provider with the token `chosen`, or stops before
\* when there is no such token or it has no supported type
AuthenticatesWith(chosen) ==
    /\ last.calls # <<>> => last.calls[1].method = "auth.test" /\ last.calls[1].arg = chosen
    /\ last.calls = <<>> => /\ Raised(last.out)
                            /\ (~Truthy(chosen) \/ _detect_token_type(chosen) = None)
    /\ ~Truthy(chosen) => last.out = Raise(AuthError("no_token"))

-----------------------------------------------------------------------------
(* normalize_types.  The --types argument is a sequence of pieces: a comma, a
   whitespace character, or a run of other characters; the result is a string. *)

MaxTypesLen == 6

Whitespace == {" ", "\t"}

RECURSIVE lstrip_whitespace(_)
lstrip_whitespace(s) ==
    IF s # <<>> /\ Head(s) \in Whitespace THEN lstrip_whitespace(Tail(s)) ELSE s

RECURSIVE rstrip_whitespace(_)
rstrip_whitespace(s) ==
    IF s # <<>> /\ s[Len(s)] \in Whitespace
    THEN rstrip_whitespace(SubSeq(s, 1, Len(s) - 1)) ELSE s

\* str.strip(): whitespace removed at both ends
strip_whitespace(s) == rstrip_whitespace(lstrip_whitespace(s))

RECURSIVE split(_, _)
\* str.split(sep): the fields between the separators, empty fields included
split(s, sep) ==
    IF \A i \in DOMAIN s : s[i] # sep THEN <<s>>
    ELSE LET i == CHOOSE k \in DOMAIN s : s[k] = sep /\ \A j \in 1..(k - 1) : s[j] # sep
         IN  <<SubSeq(s, 1, i - 1)>> \o split(SubSeq(s, i + 1, Len(s)), sep)

RECURSIVE text(_)
\* the pieces written one after the other
text(pieces) == IF pieces = <<>> THEN "" ELSE Head(pieces) \o text(Tail(pieces))

RECURSIVE StrippedParts(_)
\* [p.strip() for p in fields if p.strip()]
StrippedParts(fields) ==
    IF fields = <<>> THEN <<>>
    ELSE LET p == strip_whitespace(Head(fields))
         IN  IF p # <<>> THEN <<text(p)>> \o StrippedParts(Tail(fields))
             ELSE StrippedParts(Tail(fields))

RECURSIVE UniqueFrom(_, _)
\* for p in parts: if p not in seen: out.append(p); seen.add(p)
UniqueFrom(parts, seen) ==
    IF parts = <<>> THEN <<>>
    ELSE IF Head(parts) \notin seen
         THEN <<Head(parts)>> \o UniqueFrom(Tail(parts), seen \cup {Head(parts)})
         ELSE UniqueFrom(Tail(parts), seen)

\* the loop that appends every part, seen or not
unique_keep_repeats(parts) == parts

unique(parts) == UniqueFrom(parts, {})

RECURSIVE join(_, _)
\* sep.join(out)
join(sep, out) ==
    IF out = <<>> THEN ""
    ELSE IF Len(out) = 1 THEN out[1]
    ELSE out[1] \o sep \o join(sep, Tail(out))

normalize_types(types) ==
    LET parts == StrippedParts(split(IF types = None THEN <<>> ELSE types, ","))
        out == unique(parts)
    IN  IF out # <<>> THEN join(",", out) ELSE "public_channel"

TypesPieces == {"public_channel", "private_channel", ",", " ", "\t"}
TypesInputs == {None} \cup SeqsUpTo(TypesPieces, MaxTypesLen)

InitTypes ==
    /\ channel_cache = EmptyDict
    /\ user_cache = EmptyDict
    /\ message_cache = EmptyDict
    /\ recaps = <<>>
    /\ current_index = 0
    /\ vip_users = <<>>
    /\ tokens = EmptyDict
    /\ default_types = <<"public_channel">>
    /\ allowed_types = "public_channel"
    /\ nav = "none"
    /\ \E types \in TypesInputs : last = Call("input", types, ReturnNone, <<>>)

NormalizeTypes ==
    /\ last.op = "input"
    /\ last' = Call("normalize_types", last.arg, Return(normalize_types(last.arg)), <<>>)
    /\ UNCHANGED <<handlerVars, recapVars, vip_users, tokens, tuiVars>>

NextTypes == NormalizeTypes

SpecTypes == InitTypes /\ [][NextTypes]_vars

-----------------------------------------------------------------------------
(* Claim on normalize_types *)

\* the input as pieces, None read as the empty string
PiecesOf(types) == IF types = None THEN <<>> ELSE types

\* the entries of a comma-separated input, each named by the place where it
\* starts: the first piece, or the piece behind a comma
EntryStarts(s) == {1} \cup {i + 1 : i \in {j \in DOMAIN s : s[j] = ","}}
EntryEnd(s, a) ==
    LET commas == {i \in DOMAIN s : s[i] = "," /\ i >= a}
    IN  IF commas = {} THEN Len(s)
        ELSE (CHOOSE i \in commas : \A j \in commas : i <= j) - 1

\* the entry without the whitespace around it
Trimmed(s, a) ==
    LET inside == {i \in a..EntryEnd(s, a) : s[i] \notin Whitespace}
    IN  IF inside = {} THEN ""
        ELSE text(SubSeq(s, CHOOSE i \in inside : \A j \in inside : i <= j,
                            CHOOSE i \in inside : \A j \in inside : i >= j))

\* the non-empty entries that no earlier entry equals
FirstOccurrences(s) ==
    {a \in EntryStarts(s) :
        /\ Trimmed(s, a) # ""
        /\ \A b \in EntryStarts(s) : b < a => Trimmed(s, b) # Trimmed(s, a)}

RECURSIVE CommaJoined(_, _)
\* the entries starting at the places S, in the order of the input
CommaJoined(s, S) ==
    LET a == CHOOSE i \in S : \A j \in S : i <= j
    IN  IF S = {a} THEN Trimmed(s, a)
        ELSE Trimmed(s, a) \o "," \o CommaJoined(s, S \ {a})

\* C25: normalize_types returns the non-empty, whitespace-trimmed entries of its
\* comma-separated input joined by commas, each distinct entry once, at the
\* place of its first occurrence; and "public_channel" when the input is None,
\* empty or without a non-empty entry.
C25_NormalizedTypes ==
    last.op = "normalize_types" =>
        LET s == PiecesOf(last.arg)
        IN  last.out = Return(IF FirstOccurrences(s) = {} THEN "public_channel"
                              ELSE CommaJoined(s, FirstOccurrences(s)))

\* a repeated entry with whitespace around the entries, as in the test
C25_Witness ==
    /\ last.op = "normalize_types"
    /\ last.arg = <<" ", "public_channel", ",", "private_channel", ",", "public_channel">>
    /\ last.out = Return("public_channel,private_channel")


-----------------------------------------------------------------------------
(* MessageHandler.get_thread_replies, and the local ids of the messages *)

\* get_thread_replies that gives every reply the id of the thread
get_thread_replies_thread_id(mcache, channel_id, thread_ts, resp) ==
    LET call == ProviderCall("conversations.replies", <<channel_id, thread_ts>>, resp)
        g == generate_message_id(mcache, channel_id, thread_ts)
    IN  IF resp.ok
        THEN [message_cache |-> IF resp.messages = <<>> THEN mcache ELSE g.message_cache,
              out |-> Return([i \in DOMAIN resp.messages |->
                                 [ts |-> resp.messages[i].ts, user |-> resp.messages[i].user,
                                  reply_count |-> resp.messages[i].reply_count,
                                  msg_id |-> g.msg_id]]),
              calls |-> <<call>>]
        ELSE [message_cache |-> mcache,
              out |-> Raise(PermissionErrorOf("conversations.replies", resp)),
              calls |-> <<call>>]

get_thread_replies(mcache, channel_id, thread_ts, resp) ==
    LET call == ProviderCall("conversations.replies", <<channel_id, thread_ts>>, resp)
    IN  IF resp.ok
        THEN LET a == AddMessageIds(mcache, channel_id, resp.messages)
             IN  [message_cache |-> a.message_cache,
                  out |-> Return(a.messages),
                  calls |-> <<call>>]
        ELSE [message_cache |-> mcache,
              out |-> Raise(PermissionErrorOf("conversations.replies", resp)),
              calls |-> <<call>>]

GetThreadReplies(ReplyResponses) ==
    \E channel_id \in {C1, C2}, thread_ts \in Timestamps, resp \in ReplyResponses :
        \E r \in {get_thread_replies(message_cache, channel_id, thread_ts, resp)} :
            /\ message_cache' = r.message_cache
            /\ last' = Call("get_thread_replies", [channel_id |-> channel_id,
                                                   thread_ts |-> thread_ts], r.out, r.calls)
            /\ UNCHANGED <<channel_cache, user_cache, recapVars, vip_users, tokens, tuiVars>>

\* the provider's answers to conversations.history and conversations.replies
IdMessages == {Message(t, U1, 0) : t \in Timestamps}
IdResponses ==
    {HistoryOk(h) : h \in SeqsUpTo(IdMessages, MaxListing)} \cup MessageFailures

NextIds ==
    \/ GetMessages(IdResponses)
    \/ GetThreadReplies(IdResponses)

SpecIds == Init /\ [][NextIds]_vars

\* the channel that the last call read
ChannelRead ==
    IF last.op = "get_thread_replies" THEN last.arg.channel_id ELSE last.arg

\* C27: every message that get_messages or get_thread_replies returns carries a
\* local id that is a function of the channel id and of its own timestamp only:
\* in every state and after any calls, the id is the 8-character digest prefix of
\* that pair, and message_cache maps the id back to the pair.
C27_IdOfChannelAndTs ==
    (last.op \in {"get_messages", "get_thread_replies"} /\ Returned(last.out)) =>
        \A i \in DOMAIN last.out.value :
            LET msg == last.out.value[i]
            IN  /\ msg.msg_id = md5_prefix(ChannelRead, msg.ts)
                /\ msg.msg_id.chars = 8
                /\ msg.msg_id \in DOMAIN message_cache
                /\ message_cache[msg.msg_id] = [channel |-> ChannelRead, ts |-> msg.ts]

\* replies of a thread with timestamps other than the thread's, returned by a
\* handler that has already given ids to messages of both channels
C27_Witness ==
    /\ last.op = "get_thread_replies"
    /\ Returned(last.out)
    /\ Len(last.out.value) = 2
    /\ last.out.value[1].ts = last.arg.thread_ts
    /\ last.out.value[2].ts # last.arg.thread_ts
    /\ \E k \in DOMAIN message_cache : message_cache[k].channel # last.arg.channel_id


-----------------------------------------------------------------------------
(* SlackTUI.authenticate and the VIP view of a session *)

TypeError(keyword) == [type |-> "TypeError", unexpected_keyword |-> keyword]

\* SlackTUI.authenticate(token, save_token=, types=): the types of the session are
\* normalised and saved, then SlackAuth.authenticate is called with the keyword
\* save_token, which it does not take; the TypeError is not an AuthError and
\* leaves the method
SlackTUI_authenticate(allowed, defaults, types) ==
    [allowed_types |-> IF Truthy(types) THEN normalize_types(types) ELSE allowed,
     default_types |-> IF Truthy(types) THEN types ELSE defaults,
     out |-> Raise(TypeError("save_token")),
     calls |-> <<>>]

\* the --types argument: absent, empty, the default, two types, one type repeated
SessionTypes ==
    {None, <<>>, <<"public_channel">>,
     <<"public_channel", ",", "private_channel">>,
     <<"private_channel", ",", " ", "private_channel">>}

TuiAuthenticate ==
    \E types \in SessionTypes :
        \E r \in {SlackTUI_authenticate(allowed_types, default_types, types)} :
            /\ allowed_types' = r.allowed_types
            /\ default_types' = r.default_types
            /\ last' = Call("SlackTUI.authenticate", types, r.out, r.calls)
            /\ UNCHANGED <<handlerVars, recapVars, vip_users, tokens, nav>>

\* the session: its types are set, the registry is edited, and the VIP listener
\* built over the handler and the settings collects the VIP messages
NextSession ==
    \/ TuiAuthenticate
    \/ AddVipUser(VipCandidates)
    \/ GetVipMessages(VipListResponses, VipHistResponses)

SpecSession == Init /\ [][NextSession]_vars

\* C28: the channels that get_vip_messages scans are those of the conversation
\* types configured for the session: its listing of the channels asks the
\* provider for allowed_types, so that a member channel of a configured
\* non-default type (a private channel) is scanned for VIP messages.
C28_ScansConfiguredTypes ==
    (last.op = "get_vip_messages" /\ last.calls # <<>>) =>
        /\ last.calls[1].method = "conversations.list"
        /\ last.calls[1].arg = allowed_types

=============================================================================
